---- MODULE Spec2Model ----
(***************************************************************************)
(* Model of the plagiarism checker's pipeline, check_plagiarism in         *)
(* src/src/main.py, with the collaborators it calls: the similarity        *)
(* metrics of src/src/detector.py, the oracle wrapper                      *)
(* analyze_pair_with_llm of src/src/llm_analyzer.py and the ordering done  *)
(* by generate_html_report in src/src/reporter.py.                         *)
(*                                                                         *)
(* Texts are sequences of one-character strings.  Scores are exact         *)
(* rationals <<numerator, denominator>>; the rounding of Python floats is  *)
(* not modelled.                                                           *)
(***************************************************************************)
EXTENDS Integers, Sequences, FiniteSets, TLC

VARIABLES
    student_files,        \* crawl_directory's result: one submission per student
    use_keil_compilation, \* parameter of check_plagiarism
    filter_mode,          \* parameter: "threshold" or "top_percent"
    hex_threshold,        \* parameter (rational)
    src_threshold,        \* parameter (rational)
    top_metric,           \* parameter: name of the metric of top-percent mode
    top_percent,          \* parameter (rational)
    oracle_env,           \* "no_library", "no_api_key" or "ready"
    student_data,         \* per-student record built by step 1
    all_comparisons,      \* step 2: every scored pair
    filtered_pairs,       \* step 3: the selected pairs
    results,              \* step 4: one entry per analysed pair
    sorted_results,       \* generate_html_report's ordering of results
    oracle_calls,         \* the arguments of every analyze_pair_with_llm call
    idx,                  \* position of the step-4 loop in filtered_pairs
    pc,                   \* position in check_plagiarism
    median_hex_length,    \* step 1: the median of the non-zero hex lengths
    hex_anomalies,        \* step 1: student_data[student]['hex_anomalies']
    integrity_calls,      \* step 1: the arguments of every check_hex_integrity call
    illegal_students,     \* the list of illegal students handed to the reporter
    anomaly_students,     \* the list of anomaly students handed to the reporter
    call,                 \* a direct call of one function: its name and arguments
    ret                   \* <<>> while the call runs, then <<its value>>

vars == <<student_files, use_keil_compilation, filter_mode, hex_threshold,
          src_threshold, top_metric, top_percent, oracle_env, student_data,
          all_comparisons, filtered_pairs, results, sorted_results,
          oracle_calls, idx, pc, median_hex_length, hex_anomalies,
          integrity_calls, illegal_students, anomaly_students, call, ret>>

\* The largest number of student folders in a batch.
MaxStudents == 3

-----------------------------------------------------------------------------
(* Rationals *)

Rat(n, d) == <<n, d>>
Zero == Rat(0, 1)
One == Rat(1, 1)
RatGt(a, b) == a[1] * b[2] > b[1] * a[2]
RatEq(a, b) == a[1] * b[2] = b[1] * a[2]
RatGe(a, b) == a[1] * b[2] >= b[1] * a[2]

\* The sum of two scores, not halved.
MeanUndivided(a, b) == Rat(a[1] * b[2] + b[1] * a[2], a[2] * b[2])

\* (a + b) / 2.0
Mean(a, b) == Rat(a[1] * b[2] + b[1] * a[2], 2 * a[2] * b[2])

\* f"{x:.2f}": the score in hundredths, rounded to nearest.
Format2f(x) == (2 * 100 * x[1] + x[2]) \div (2 * x[2])

-----------------------------------------------------------------------------
(* Texts *)

IsSpace(c) == c \in {" ", "\n", "\t"}

RECURSIVE SplitFrom(_, _, _)
\* str.split(): the maximal runs of non-whitespace characters, in order.
SplitFrom(text, i, cur) ==
    IF i > Len(text)
    THEN IF cur = <<>> THEN <<>> ELSE <<cur>>
    ELSE IF IsSpace(text[i])
         THEN IF cur = <<>>
              THEN SplitFrom(text, i + 1, <<>>)
              ELSE <<cur>> \o SplitFrom(text, i + 1, <<>>)
         ELSE SplitFrom(text, i + 1, Append(cur, text[i]))

tokenize_code(text) == IF text = <<>> THEN <<>> ELSE SplitFrom(text, 1, <<>>)

Max(a, b) == IF a >= b THEN a ELSE b
Min(a, b) == IF a <= b THEN a ELSE b

\* The dynamic-programming table of lcs_length, entry dp[i][j].
RECURSIVE LcsTable(_, _, _, _)
LcsTable(tokens1, tokens2, i, j) ==
    IF i = 0 \/ j = 0 THEN 0
    ELSE IF tokens1[i] = tokens2[j]
         THEN LcsTable(tokens1, tokens2, i - 1, j - 1) + 1
         ELSE Max(LcsTable(tokens1, tokens2, i - 1, j),
                  LcsTable(tokens1, tokens2, i, j - 1))

RECURSIVE LcsTableFirstOnly(_, _, _, _)
\* The table with dp[i-1][j] alone taken where the tokens differ.
LcsTableFirstOnly(tokens1, tokens2, i, j) ==
    IF i = 0 \/ j = 0 THEN 0
    ELSE IF tokens1[i] = tokens2[j]
         THEN LcsTableFirstOnly(tokens1, tokens2, i - 1, j - 1) + 1
         ELSE LcsTableFirstOnly(tokens1, tokens2, i - 1, j)

\* lcs_length read from that table.
lcs_lengthFirstOnly(tokens1, tokens2) ==
    IF tokens1 = <<>> \/ tokens2 = <<>> THEN 0
    ELSE LcsTableFirstOnly(tokens1, tokens2, Len(tokens1), Len(tokens2))

lcs_length(tokens1, tokens2) ==
    IF tokens1 = <<>> \/ tokens2 = <<>> THEN 0
    ELSE LcsTable(tokens1, tokens2, Len(tokens1), Len(tokens2))

\* The score with the length of the first token list counted twice.
calculate_token_sequence_similarityFirstLength(text1, text2) ==
    IF text1 = <<>> /\ text2 = <<>> THEN One
    ELSE IF text1 = <<>> \/ text2 = <<>> THEN Zero
    ELSE LET tokens1 == tokenize_code(text1)
             tokens2 == tokenize_code(text2)
         IN  IF tokens1 = <<>> /\ tokens2 = <<>> THEN One
             ELSE IF tokens1 = <<>> \/ tokens2 = <<>> THEN Zero
             ELSE Rat(2 * lcs_length(tokens1, tokens2), 2 * Len(tokens1))

\* The score without the value 1.0 for two texts that hold no token.
calculate_token_sequence_similarityNoTokensZero(text1, text2) ==
    IF text1 = <<>> /\ text2 = <<>> THEN One
    ELSE IF text1 = <<>> \/ text2 = <<>> THEN Zero
    ELSE LET tokens1 == tokenize_code(text1)
             tokens2 == tokenize_code(text2)
         IN  IF tokens1 = <<>> \/ tokens2 = <<>> THEN Zero
             ELSE Rat(2 * lcs_length(tokens1, tokens2),
                      Len(tokens1) + Len(tokens2))

calculate_token_sequence_similarity(text1, text2) ==
    IF text1 = <<>> /\ text2 = <<>> THEN One
    ELSE IF text1 = <<>> \/ text2 = <<>> THEN Zero
    ELSE LET tokens1 == tokenize_code(text1)
             tokens2 == tokenize_code(text2)
         IN  IF tokens1 = <<>> /\ tokens2 = <<>> THEN One
             ELSE IF tokens1 = <<>> \/ tokens2 = <<>> THEN Zero
             ELSE Rat(2 * lcs_length(tokens1, tokens2),
                      Len(tokens1) + Len(tokens2))

\* The ratio with the common characters counted once.
LevenshteinRatioSingleCount(text1, text2) ==
    LET lensum == Len(text1) + Len(text2)
        distance == lensum - LcsTable(text1, text2, Len(text1), Len(text2))
    IN  Rat(lensum - distance, lensum)

\* Levenshtein.ratio: (lensum - distance) / lensum, the distance counting an
\* insertion or a deletion 1 and a substitution 2, so distance is
\* lensum - 2 * (longest common subsequence of the characters).
LevenshteinRatio(text1, text2) ==
    LET lensum == Len(text1) + Len(text2)
        distance == lensum - 2 * LcsTable(text1, text2, Len(text1), Len(text2))
    IN  Rat(lensum - distance, lensum)

calculate_levenshtein_similarity(text1, text2) ==
    IF text1 = <<>> /\ text2 = <<>> THEN One
    ELSE IF text1 = <<>> \/ text2 = <<>> THEN Zero
    ELSE LevenshteinRatio(text1, text2)

calculate_combined_similarity(text1, text2) ==
    [token_seq |-> calculate_token_sequence_similarity(text1, text2),
     levenshtein |-> calculate_levenshtein_similarity(text1, text2)]

-----------------------------------------------------------------------------
(* Step 1: preprocessing *)

ToLower(c) == IF c = "A" THEN "a" ELSE IF c = "B" THEN "b" ELSE c

RECURSIVE StripLeft(_)
StripLeft(text) ==
    IF text # <<>> /\ IsSpace(Head(text)) THEN StripLeft(Tail(text)) ELSE text

RECURSIVE StripRight(_)
StripRight(text) ==
    IF text # <<>> /\ IsSpace(text[Len(text)])
    THEN StripRight(SubSeq(text, 1, Len(text) - 1))
    ELSE text

\* str.strip()
Strip(text) == StripRight(StripLeft(text))

RECURSIVE RemoveComments(_, _, _)
\* re.sub(marker + '.*', '', content): from the marker to the end of its line.
RemoveComments(text, marker, inComment) ==
    IF text = <<>> THEN <<>>
    ELSE IF inComment
         THEN IF Head(text) = "\n"
              THEN <<"\n">> \o RemoveComments(Tail(text), marker, FALSE)
              ELSE RemoveComments(Tail(text), marker, TRUE)
         ELSE IF Len(text) >= Len(marker) /\ SubSeq(text, 1, Len(marker)) = marker
              THEN RemoveComments(SubSeq(text, Len(marker) + 1, Len(text)), marker, TRUE)
              ELSE <<Head(text)>> \o RemoveComments(Tail(text), marker, FALSE)

RECURSIVE CollapseSpace(_, _)
\* re.sub(r'\s+', ' ', content)
CollapseSpace(text, inRun) ==
    IF text = <<>> THEN <<>>
    ELSE IF IsSpace(Head(text))
         THEN IF inRun THEN CollapseSpace(Tail(text), TRUE)
              ELSE <<" ">> \o CollapseSpace(Tail(text), TRUE)
         ELSE <<Head(text)>> \o CollapseSpace(Tail(text), FALSE)

\* clean_code on texts without digits and without block comments: the
\* comments go, whitespace runs become one space, letters are lowered.
clean_code(content, file_extension) ==
    LET uncommented ==
            IF file_extension \in {".a51", ".asm"}
            THEN RemoveComments(content, <<";">>, FALSE)
            ELSE IF file_extension \in {".c", ".txt"}
                 THEN RemoveComments(content, <<"/", "/">>, FALSE)
                 ELSE content
        spaced == CollapseSpace(uncommented, FALSE)
    IN  Strip([i \in 1..Len(spaced) |-> ToLower(spaced[i])])

\* The valid extensions with .c in either mode.
ValidExtensionsAlwaysC(keil) == {".a51", ".asm", ".c"}

\* valid_extensions of check_plagiarism
ValidExtensions(keil) ==
    IF keil THEN {".a51", ".asm", ".c"} ELSE {".a51", ".asm"}

RECURSIVE FullSource(_)
\* full_source: the cleaned text of every readable source file, each
\* followed by one space.
FullSource(files) ==
    IF files = <<>> THEN <<>>
    ELSE LET f == Head(files)
         IN  (IF f.content = <<>> \/ f.ext \notin {".c", ".a51", ".asm"}
              THEN <<>>
              ELSE clean_code(f.content, f.ext) \o <<" ">>)
             \o FullSource(Tail(files))

RECURSIVE FullOriginalSource(_)
\* full_original_source: "--- name ---\n" content "\n\n" per readable file;
\* the header is the one character "-".
FullOriginalSource(files) ==
    IF files = <<>> THEN <<>>
    ELSE LET f == Head(files)
         IN  (IF f.content = <<>> THEN <<>>
              ELSE <<"-", "\n">> \o f.content \o <<"\n", "\n">>)
             \o FullOriginalSource(Tail(files))

RECURSIVE CompiledAsm(_)
\* The assembly of every C file that compile_and_extract_asm compiled.
CompiledAsm(files) ==
    IF files = <<>> THEN <<>>
    ELSE LET f == Head(files)
         IN  (IF f.content # <<>> /\ f.ext = ".c" /\ f.compiles
              THEN f.asm_code \o <<" ">>
              ELSE <<>>)
             \o CompiledAsm(Tail(files))

\* An exception of compile_and_extract_asm leaves the loop over
\* c_files_for_compilation, and check_plagiarism with it.
CompileRaises(files, keil) ==
    keil /\ \E i \in 1..Len(files) :
                files[i].content # <<>> /\ files[i].ext = ".c" /\ files[i].raises

RECURSIVE RawAsm(_)
\* The cleaned text of every assembly file.
RawAsm(files) ==
    IF files = <<>> THEN <<>>
    ELSE LET f == Head(files)
         IN  (IF f.content # <<>> /\ f.ext \in {".a51", ".asm"}
              THEN clean_code(f.content, ".a51") \o <<" ">>
              ELSE <<>>)
             \o RawAsm(Tail(files))

FullAsmSource(files, keil) ==
    (IF keil THEN CompiledAsm(files) ELSE <<>>) \o RawAsm(files)

RECURSIVE FullHex(_)
\* full_hex: the payloads normalize_hex returned, concatenated.
FullHex(hexFiles) ==
    IF hexFiles = <<>> THEN <<>>
    ELSE Head(hexFiles) \o FullHex(Tail(hexFiles))

HasValidSource(files, keil) ==
    \E i \in 1..Len(files) : files[i].ext \in ValidExtensions(keil)

\* illegal_reason, as the list of its parts.
IllegalReason(sub, keil) ==
    (IF HasValidSource(sub.source, keil) THEN <<>>
     ELSE IF sub.all_files > 0 THEN <<"no_valid_source">> ELSE <<"no_files">>)
    \o (IF Strip(FullHex(sub.hex)) = <<>> THEN <<"no_hex">> ELSE <<>>)

RECURSIVE AllHexInfo(_, _)
\* all_hex_info: the hex_info of the hex files, aggregated, with the length
\* of full_hex as data_length.
AllHexInfo(infos, data_length) ==
    IF infos = <<>>
    THEN [has_eof |-> FALSE, format_errors |-> <<>>, valid_lines |-> 0,
          data_length |-> data_length]
    ELSE LET rest == AllHexInfo(Tail(infos), data_length)
         IN  [has_eof |-> Head(infos).has_eof \/ rest.has_eof,
              format_errors |-> Head(infos).format_errors \o rest.format_errors,
              valid_lines |-> Head(infos).valid_lines + rest.valid_lines,
              data_length |-> data_length]

RECURSIVE SortAsc(_)
\* hex_lengths.sort()
SortAsc(seq) ==
    IF seq = <<>> THEN <<>>
    ELSE LET before == SortAsc(SubSeq(seq, 1, Len(seq) - 1))
             x == seq[Len(seq)]
             k == Cardinality({p \in 1..Len(before) : before[p] <= x})
         IN  SubSeq(before, 1, k) \o <<x>> \o SubSeq(before, k + 1, Len(before))

\* The median with the zero lengths counted.
MedianHexLengthWithZeros(lengths) ==
    LET hex_lengths == SortAsc(lengths)
        n == Len(hex_lengths)
    IN  IF n = 0 THEN Rat(0, 1)
        ELSE IF n % 2 = 0
             THEN Rat(hex_lengths[n \div 2] + hex_lengths[n \div 2 + 1], 2)
             ELSE Rat(hex_lengths[n \div 2 + 1], 1)

\* median_hex_length of the hex_length values of the students, in order.
MedianHexLength(lengths) ==
    LET hex_lengths == SortAsc(SelectSeq(lengths, LAMBDA l : l > 0))
        n == Len(hex_lengths)
    IN  IF n = 0 THEN Rat(0, 1)
        ELSE IF n % 2 = 0
             THEN Rat(hex_lengths[n \div 2] + hex_lengths[n \div 2 + 1], 2)
             ELSE Rat(hex_lengths[n \div 2 + 1], 1)

\* One anomaly: errors is details['errors'] of FORMAT_ERRORS, <<>> otherwise.
Anomaly(code, severity, errors) ==
    [code |-> code, severity |-> severity, errors |-> errors]

\* Every message, however many.
FirstFiveUncut(format_errors) == format_errors

\* format_errors[:5]
FirstFive(format_errors) ==
    SubSeq(format_errors, 1, IF Len(format_errors) < 5 THEN Len(format_errors) ELSE 5)

check_hex_integrity(hex_info, hex_length, median_length) ==
    LET lower_threshold == Rat(median_length[1] * 3, median_length[2] * 4)
        upper_threshold == Rat(median_length[1] * 5, median_length[2] * 4)
        length == Rat(hex_length, 1)
    IN  (IF ~hex_info.has_eof THEN <<Anomaly("NO_EOF", "warning", <<>>)>> ELSE <<>>)
        \o (IF hex_info.format_errors # <<>>
            THEN <<Anomaly("FORMAT_ERRORS", "error", FirstFive(hex_info.format_errors))>>
            ELSE <<>>)
        \o (IF RatGt(median_length, Zero)
            THEN IF RatGt(lower_threshold, length)
                 THEN <<Anomaly("SHORT_LENGTH", "warning", <<>>)>>
                 ELSE IF RatGt(length, upper_threshold)
                      THEN <<Anomaly("LONG_LENGTH", "warning", <<>>)>>
                      ELSE <<>>
            ELSE <<>>)
        \o (IF hex_length < 20
            THEN <<Anomaly("INSUFFICIENT_DATA", "error", <<>>)>>
            ELSE <<>>)

\* The second loop over student_data: the hex anomalies of one student.
HexAnomaliesOf(sub, data, median_length) ==
    IF data.hex_length > 0
    THEN check_hex_integrity(AllHexInfo(sub.hex_info, data.hex_length),
                             data.hex_length, median_length)
    ELSE <<>>

\* The hex lengths of the first student only.
HexLengthsOfFirst(data) ==
    [s \in 1..Min(1, Len(data)) |-> data[s].hex_length]

\* data['hex_length'] for data in student_data.values()
HexLengthsOf(data) == [s \in 1..Len(data) |-> data[s].hex_length]

\* The check_hex_integrity calls of the second loop, in order.
IntegrityCalls(data, median_length) ==
    LET checked == SelectSeq([s \in 1..Len(data) |-> s],
                             LAMBDA s : data[s].hex_length > 0)
    IN  [k \in 1..Len(checked) |->
            [student |-> checked[k], hex_length |-> data[checked[k]].hex_length,
             median_length |-> median_length]]

-----------------------------------------------------------------------------
(* validate_source_code *)

UpperLetters ==
    <<"A", "B", "C", "D", "E", "F", "G", "H", "I", "J", "K", "L", "M",
      "N", "O", "P", "Q", "R", "S", "T", "U", "V", "W", "X", "Y", "Z">>
LowerLetters ==
    <<"a", "b", "c", "d", "e", "f", "g", "h", "i", "j", "k", "l", "m",
      "n", "o", "p", "q", "r", "s", "t", "u", "v", "w", "x", "y", "z">>

\* str.lower() on ASCII text
str_lower(text) ==
    [i \in 1..Len(text) |->
        IF \E k \in 1..26 : UpperLetters[k] = text[i]
        THEN LowerLetters[CHOOSE k \in 1..26 : UpperLetters[k] = text[i]]
        ELSE text[i]]

RECURSIVE SplitLinesFrom(_, _, _, _)
\* str.splitlines() on text whose only line boundary is "\n": a boundary
\* ends a line, and text after the last boundary is a line of its own.
SplitLinesFrom(text, i, cur, open) ==
    IF i > Len(text)
    THEN IF open THEN <<cur>> ELSE <<>>
    ELSE IF text[i] = "\n"
         THEN <<cur>> \o SplitLinesFrom(text, i + 1, <<>>, FALSE)
         ELSE SplitLinesFrom(text, i + 1, Append(cur, text[i]), TRUE)

splitlines(content) == SplitLinesFrom(content, 1, <<>>, FALSE)

\* The label colon is kept.
rstrip_colonKept(word) == word

RECURSIVE rstrip_colon(_)
\* parts[0].rstrip(':')
rstrip_colon(word) ==
    IF word # <<>> /\ word[Len(word)] = ":"
    THEN rstrip_colon(SubSeq(word, 1, Len(word) - 1))
    ELSE word

\* The branch of the loop of validate_source_code a line takes.
LineKind(line) ==
    LET stripped == Strip(line)
    IN  IF stripped = <<>> THEN "blank"
        ELSE IF Head(stripped) = ";" THEN "comment"
             ELSE "code"

\* An instruction is kept only when it is not empty.
InstructionsNonEmpty(lines) ==
    LET instr(line) == rstrip_colon(SplitFrom(str_lower(Strip(line)), 1, <<>>)[1])
        code == SelectSeq(lines, LAMBDA line : LineKind(line) = "code")
    IN  SelectSeq([k \in 1..Len(code) |-> instr(code[k])], LAMBDA w : w # <<>>)

\* instructions: the first word of every code line, lowered, without the
\* colons at its end.
Instructions(lines) ==
    LET code == SelectSeq(lines, LAMBDA line : LineKind(line) = "code")
        parts(line) == SplitFrom(str_lower(Strip(line)), 1, <<>>)
        with_parts == SelectSeq(code, LAMBDA line : parts(line) # <<>>)
    IN  [k \in 1..Len(with_parts) |-> rstrip_colon(parts(with_parts[k])[1])]

\* One source anomaly: details is <<count>>, the ratio <<n, d>>, or <<>>.
SourceAnomaly(code, severity, details) ==
    [code |-> code, severity |-> severity, details |-> details]

CountLines(lines, kind) ==
    Cardinality({k \in 1..Len(lines) : LineKind(lines[k]) = kind})

validate_source_code(content, file_extension) ==
    IF file_extension \notin {".a51", ".asm"} THEN <<>>
    ELSE
    LET lines == splitlines(content)
        total_lines == Len(lines)
        blank_lines == CountLines(lines, "blank")
        comment_lines == CountLines(lines, "comment")
        code_lines == CountLines(lines, "code")
        instructions == Instructions(lines)
        found(word) == \E k \in 1..Len(instructions) : instructions[k] = word
    IN  IF total_lines = 0
        THEN <<SourceAnomaly("EMPTY_FILE", "error", <<>>)>>
        ELSE (IF Len(instructions) < 10
              THEN <<SourceAnomaly("FEW_INSTRUCTIONS", "warning", <<Len(instructions)>>)>>
              ELSE <<>>)
          \o (IF ~found(<<"o", "r", "g">>)
              THEN <<SourceAnomaly("NO_ORG", "warning", <<>>)>>
              ELSE <<>>)
          \o (IF ~found(<<"e", "n", "d">>)
              THEN <<SourceAnomaly("NO_END", "warning", <<>>)>>
              ELSE <<>>)
          \o (IF RatGt(Rat(comment_lines, total_lines), Rat(8, 10))
              THEN <<SourceAnomaly("HIGH_COMMENT_RATIO", "warning",
                                   Rat(comment_lines, total_lines))>>
              ELSE <<>>)
          \o (IF RatGt(Rat(blank_lines, total_lines), Rat(5, 10))
              THEN <<SourceAnomaly("HIGH_BLANK_RATIO", "warning",
                                   Rat(blank_lines, total_lines))>>
              ELSE <<>>)
          \o (IF code_lines < 5
              THEN <<SourceAnomaly("FEW_CODE_LINES", "error", <<code_lines>>)>>
              ELSE <<>>)

-----------------------------------------------------------------------------
(* normalize_hex *)

HexDigitChars ==
    <<"0", "1", "2", "3", "4", "5", "6", "7", "8", "9", "a", "b", "c", "d", "e", "f">>
IsHexDigit(c) == \E k \in 1..16 : HexDigitChars[k] = str_lower(<<c>>)[1]
HexDigitValue(c) == (CHOOSE k \in 1..16 : HexDigitChars[k] = str_lower(<<c>>)[1]) - 1

\* int(field, 16) for an ASCII field of two characters: the whitespace
\* around the number is dropped, a sign may precede the digits; raised is
\* the ValueError.
int16(field) ==
    LET s == Strip(field)
    IN  IF Len(s) = 1 /\ IsHexDigit(s[1])
        THEN [raised |-> FALSE, value |-> HexDigitValue(s[1])]
        ELSE IF Len(s) = 2 /\ IsHexDigit(s[1]) /\ IsHexDigit(s[2])
        THEN [raised |-> FALSE, value |-> 16 * HexDigitValue(s[1]) + HexDigitValue(s[2])]
        ELSE IF Len(s) = 2 /\ s[1] = "+" /\ IsHexDigit(s[2])
        THEN [raised |-> FALSE, value |-> HexDigitValue(s[2])]
        ELSE IF Len(s) = 2 /\ s[1] = "-" /\ IsHexDigit(s[2])
        THEN [raised |-> FALSE, value |-> 0 - HexDigitValue(s[2])]
        ELSE [raised |-> TRUE, value |-> 0]

\* line[a:b] with 0 <= a: the characters a+1..b that exist.
Slice(line, a, b) == SubSeq(line, a + 1, Min(Max(a, b), Len(line)))

\* What one line adds: data to the payload, 1 to valid_lines, the EOF flag,
\* messages to format_errors.
HexLineResult(data, valid, eof, errors) ==
    [data |-> data, valid |-> valid, eof |-> eof, errors |-> errors]

\* f"Line {line_num}: ..."; the text of the ValueError after "Parse error"
\* is left out.
HexMessage(line_num, text) == "Line " \o ToString(line_num) \o ": " \o text

\* One pass of the loop of normalize_hex.
HexLine(raw, line_num) ==
    LET line == Strip(raw)
        byte_count == int16(Slice(line, 1, 3))
        record_type == int16(Slice(line, 7, 9))
        data_end == 9 + byte_count.value * 2
    IN  IF line = <<>> THEN HexLineResult(<<>>, 0, FALSE, <<>>)
        ELSE IF Head(line) # ":"
        THEN HexLineResult(<<>>, 0, FALSE, <<HexMessage(line_num, "Missing ':' prefix")>>)
        ELSE IF Len(line) < 11
        THEN HexLineResult(<<>>, 0, FALSE, <<HexMessage(line_num, "Line too short")>>)
        ELSE IF byte_count.raised \/ record_type.raised
        THEN HexLineResult(<<>>, 0, FALSE, <<HexMessage(line_num, "Parse error")>>)
        ELSE IF record_type.value = 0
        THEN IF Len(line) < data_end
             THEN HexLineResult(<<>>, 0, FALSE,
                                <<HexMessage(line_num, "Insufficient data")>>)
             ELSE HexLineResult(Slice(line, 9, data_end), 1, FALSE, <<>>)
        ELSE HexLineResult(<<>>, 0, record_type.value = 1, <<>>)

RECURSIVE HexLinesFrom(_, _)
\* The loop over enumerate(lines, 1) from line line_num on.
HexLinesFrom(lines, line_num) ==
    IF line_num > Len(lines) THEN HexLineResult(<<>>, 0, FALSE, <<>>)
    ELSE LET first == HexLine(lines[line_num], line_num)
             rest == HexLinesFrom(lines, line_num + 1)
         IN  HexLineResult(first.data \o rest.data, first.valid + rest.valid,
                           first.eof \/ rest.eof, first.errors \o rest.errors)

\* <<data_payload.lower(), hex_info>>
normalize_hex(content) ==
    LET all == HexLinesFrom(splitlines(content), 1)
    IN  <<str_lower(all.data),
          [has_eof |-> all.eof, format_errors |-> all.errors,
           valid_lines |-> all.valid, data_length |-> Len(all.data)]>>

-----------------------------------------------------------------------------
(* compile_c_to_asm_keil and compile_and_extract_asm *)

\* What the machine does when one C file is compiled: whether a Keil path is
\* given or found, whether BIN/C51.exe exists there, whether shutil.copy2
\* succeeds, how subprocess.run ends ("exit", "timeout" or "error", any other
\* exception), the compiler's return code, standard output and standard
\* error, and which of the .lst and .a51 files exist afterwards.
CompileEnv(keil_found, compiler_exists, copy_ok, run, returncode, stdout, stderr, lst_exists, a51_exists) ==
    [keil_found |-> keil_found, compiler_exists |-> compiler_exists,
     copy_ok |-> copy_ok, run |-> run, returncode |-> returncode,
     stdout |-> stdout, stderr |-> stderr,
     lst_exists |-> lst_exists, a51_exists |-> a51_exists]

\* The return value (success, asm_content, error), or an exception that
\* leaves the function.
CompileResult(raised, success, asm_content, error) ==
    [raised |-> raised, success |-> success, asm_content |-> asm_content,
     error |-> error]

\* The fixed texts of the error messages; the paths and the text of an
\* exception that follow some of them are left out.
KeilNotFound ==
    <<"K", "e", "i", "l", " ", "C", "5", "1", " ", "c", "o", "m", "p", "i",
    "l", "e", "r", " ", "n", "o", "t", " ", "f", "o", "u", "n", "d", ".",
    " ", "P", "l", "e", "a", "s", "e", " ", "p", "r", "o", "v", "i", "d",
    "e", " ", "k", "e", "i", "l", "_", "p", "a", "t", "h", " ", "p", "a",
    "r", "a", "m", "e", "t", "e", "r", " ", "o", "r", " ", "i", "n", "s",
    "t", "a", "l", "l", " ", "K", "e", "i", "l", " ", "C", "5", "1", ".">>
CompilerNotFound ==
    <<"C", "5", "1", " ", "c", "o", "m", "p", "i", "l", "e", "r", " ", "n",
    "o", "t", " ", "f", "o", "u", "n", "d", " ", "a", "t", " ">>
CompilationFailed ==
    <<"C", "o", "m", "p", "i", "l", "a", "t", "i", "o", "n", " ", "f", "a",
    "i", "l", "e", "d", ":", " ">>
ListingNotFound ==
    <<"A", "s", "s", "e", "m", "b", "l", "y", " ", "f", "i", "l", "e", " ",
    "n", "o", "t", " ", "f", "o", "u", "n", "d", " ", "a", "f", "t", "e",
    "r", " ", "c", "o", "m", "p", "i", "l", "a", "t", "i", "o", "n", ":",
    " ">>
CompilationTimedOut ==
    <<"C", "o", "m", "p", "i", "l", "a", "t", "i", "o", "n", " ", "t", "i",
    "m", "e", "d", " ", "o", "u", "t">>
CompilationError ==
    <<"C", "o", "m", "p", "i", "l", "a", "t", "i", "o", "n", " ", "e", "r",
    "r", "o", "r", ":", " ">>

\* f"Compilation failed: {result.stderr}"
FailureMessage(env) == CompilationFailed \o env.stderr

\* compile_c_to_asm_keil for one C file whose compilation goes as env says
\* and whose listing, if one is written, is the text listing.
compile_c_to_asm_keil(env, listing) ==
    IF ~env.keil_found THEN CompileResult(FALSE, FALSE, <<>>, KeilNotFound)
    ELSE IF ~env.compiler_exists THEN CompileResult(FALSE, FALSE, <<>>, CompilerNotFound)
    ELSE IF ~env.copy_ok THEN CompileResult(TRUE, FALSE, <<>>, <<>>)
    ELSE IF env.run = "timeout" THEN CompileResult(FALSE, FALSE, <<>>, CompilationTimedOut)
    ELSE IF env.run = "error" THEN CompileResult(FALSE, FALSE, <<>>, CompilationError)
    ELSE IF env.returncode # 0 THEN CompileResult(FALSE, FALSE, <<>>, FailureMessage(env))
    ELSE IF ~env.lst_exists /\ ~env.a51_exists
    THEN CompileResult(FALSE, FALSE, <<>>, ListingNotFound)
    ELSE CompileResult(FALSE, TRUE, listing, <<>>)

\* compile_and_extract_asm: asm_code is what extract_code_from_listing makes
\* of the listing.
compile_and_extract_asm(env, listing, asm_code) ==
    LET compiled == compile_c_to_asm_keil(env, listing)
    IN  IF compiled.raised \/ ~compiled.success
        THEN CompileResult(compiled.raised, FALSE, <<>>, compiled.error)
        ELSE CompileResult(FALSE, TRUE, asm_code, <<>>)

RECURSIVE SourceAnomaliesOf(_)
\* source_anomalies: what validate_source_code returns for every readable
\* source file, in order.
SourceAnomaliesOf(files) ==
    IF files = <<>> THEN <<>>
    ELSE (IF Head(files).content = <<>> THEN <<>>
          ELSE validate_source_code(Head(files).content, Head(files).ext))
         \o SourceAnomaliesOf(Tail(files))

\* The student_data entry that the first loop of check_plagiarism builds.
PreprocessStudent(sub, keil) ==
    [source |-> Strip(FullSource(sub.source)),
     asm_source |-> Strip(FullAsmSource(sub.source, keil)),
     original_source |-> Strip(FullOriginalSource(sub.source)),
     hex |-> FullHex(sub.hex),
     hex_length |-> Len(FullHex(sub.hex)),
     illegal_submission |-> (~HasValidSource(sub.source, keil))
                            \/ Strip(FullHex(sub.hex)) = <<>>,
     illegal_reason |-> IllegalReason(sub, keil),
     source_anomalies |-> SourceAnomaliesOf(sub.source)]

-----------------------------------------------------------------------------
(* The submissions a student folder can hold *)

\* A file with its extension and text.  For a C file: whether
\* compile_and_extract_asm succeeds, the assembly it then returns, the error
\* it returns otherwise, and whether it raises instead of returning.
SourceFile(ext, content) ==
    [ext |-> ext, content |-> content, compiles |-> FALSE, asm_code |-> <<>>,
     error |-> <<>>, raises |-> FALSE]
CFile(content, compiles, asm_code) ==
    [ext |-> ".c", content |-> content, compiles |-> compiles, asm_code |-> asm_code,
     error |-> <<>>, raises |-> FALSE]

\* A C file whose compilation goes as env says; its listing is taken to be
\* the assembly itself.
CompiledCFile(content, env, asm_code) ==
    LET compiled == compile_and_extract_asm(env, asm_code, asm_code)
    IN  [ext |-> ".c", content |-> content, compiles |-> compiled.success,
         asm_code |-> compiled.asm_content, error |-> compiled.error,
         raises |-> compiled.raised]

\* The hex_info normalize_hex returns with the payload of one hex file.
HexFileInfo(has_eof, format_errors, valid_lines) ==
    [has_eof |-> has_eof, format_errors |-> format_errors, valid_lines |-> valid_lines]

\* one assembly file "a b;a" (a comment after the code); payload 0103; the
\* hex file ends with an EOF record
SubA == [source |-> << SourceFile(".asm", <<"a", " ", "b", ";", "a">>) >>,
         hex |-> << <<"0", "1", "0", "3">> >>, all_files |-> 2,
         hex_info |-> << HexFileInfo(TRUE, <<>>, 1) >>]
\* three assembly files "a", ";b" and "b": the second cleans to nothing;
\* payload 0102 in two hex files, each with one malformed line, the second
\* with an EOF record
SubB == [source |-> << SourceFile(".a51", <<"a">>),
                       SourceFile(".a51", <<";", "b">>),
                       SourceFile(".a51", <<"b">>) >>,
         hex |-> << <<"0", "1">>, <<"0", "2">> >>, all_files |-> 5,
         hex_info |-> << HexFileInfo(FALSE, <<"Line 2: Line too short">>, 1),
                         HexFileInfo(TRUE, <<"Line 1: Missing ':' prefix">>, 1) >>]
\* one C file "A b" that compiles to "b\na"; payload 0102 in two data
\* records and no EOF record
SubC == [source |-> << CFile(<<"A", " ", "b">>, TRUE, <<"b", "\n", "a">>) >>,
         hex |-> << <<"0", "1", "0", "2">> >>, all_files |-> 2,
         hex_info |-> << HexFileInfo(FALSE, <<>>, 2) >>]
\* a text file only: no source file and no hex file
SubD == [source |-> <<>>, hex |-> <<>>, all_files |-> 1, hex_info |-> <<>>]

Submissions == {SubA, SubB, SubC, SubD}

\* The ways the compilation of a C file fails: no compiler found, the copy
\* to the work directory fails, a non-zero exit, a timeout, no listing.
FailingEnvs ==
    {CompileEnv(FALSE, FALSE, TRUE, "exit", 0, <<>>, <<>>, FALSE, FALSE),
     CompileEnv(TRUE, TRUE, FALSE, "exit", 0, <<>>, <<>>, FALSE, FALSE),
     CompileEnv(TRUE, TRUE, TRUE, "exit", 1, <<"e">>, <<>>, FALSE, FALSE),
     CompileEnv(TRUE, TRUE, TRUE, "timeout", 0, <<>>, <<>>, FALSE, FALSE),
     CompileEnv(TRUE, TRUE, TRUE, "exit", 0, <<>>, <<>>, FALSE, FALSE)}

\* two C files: "A b", whose compilation goes as env says, and "B", which
\* compiles to "b"; payload 0102 and an EOF record
SubFailing(env) ==
    [source |-> << CompiledCFile(<<"A", " ", "b">>, env, <<"b", "\n", "a">>),
                   CFile(<<"B">>, TRUE, <<"b">>) >>,
     hex |-> << <<"0", "1", "0", "2">> >>, all_files |-> 3,
     hex_info |-> << HexFileInfo(TRUE, <<>>, 1) >>]

CompileSubmissions == {SubA, SubC} \cup {SubFailing(env) : env \in FailingEnvs}

\* one assembly file "a b"; payload 01020304 and an EOF record
SubLong == [source |-> << SourceFile(".asm", <<"a", " ", "b">>) >>,
            hex |-> << <<"0", "1", "0", "2", "0", "3", "0", "4">> >>, all_files |-> 2,
            hex_info |-> << HexFileInfo(TRUE, <<>>, 1) >>]

HexPassSubmissions == Submissions \cup {SubLong}

-----------------------------------------------------------------------------
(* Sorting *)

RECURSIVE StableOrderDesc(_, _)
\* list.sort(key=..., reverse=True) as the list of positions it produces:
\* keys[i] is the key of the element at position i; an element goes behind
\* every element whose key is at least its own, so equal keys keep their order.
StableOrderDesc(keys, n) ==
    IF n = 0 THEN <<>>
    ELSE LET before == StableOrderDesc(keys, n - 1)
             k == Cardinality({p \in 1..Len(before) : RatGe(keys[before[p]], keys[n])})
         IN  SubSeq(before, 1, k) \o <<n>> \o SubSeq(before, k + 1, Len(before))

SortDescBy(seq, keys) ==
    LET order == StableOrderDesc(keys, Len(seq))
    IN  [i \in 1..Len(seq) |-> seq[order[i]]]

-----------------------------------------------------------------------------
(* Step 2: scoring *)

RECURSIVE Combinations(_, _, _)
\* itertools.combinations(students, 2), in its order.
Combinations(i, j, n) ==
    IF i >= n THEN <<>>
    ELSE IF j > n THEN Combinations(i + 1, i + 2, n)
         ELSE <<<<i, j>>>> \o Combinations(i, j + 1, n)

\* One entry of all_comparisons with the functions called on empty texts too.
ComparisonUnguarded(data, student1, student2, keil) ==
    LET src1 == IF keil THEN data[student1].asm_source ELSE data[student1].source
        src2 == IF keil THEN data[student2].asm_source ELSE data[student2].source
        src_sim == calculate_combined_similarity(src1, src2)
        hex_lev == calculate_levenshtein_similarity(data[student1].hex, data[student2].hex)
    IN  [student1 |-> student1,
         student2 |-> student2,
         source_similarity |-> src_sim,
         hex_levenshtein |-> hex_lev,
         max_hex_sim |-> hex_lev,
         avg_score |-> Mean(src_sim.token_seq, src_sim.levenshtein)]

\* One entry of all_comparisons.
Comparison(data, student1, student2, keil) ==
    LET src1 == IF keil THEN data[student1].asm_source ELSE data[student1].source
        src2 == IF keil THEN data[student2].asm_source ELSE data[student2].source
        src_sim == IF src1 # <<>> /\ src2 # <<>>
                   THEN calculate_combined_similarity(src1, src2)
                   ELSE [token_seq |-> Zero, levenshtein |-> Zero]
        hex1 == data[student1].hex
        hex2 == data[student2].hex
        hex_lev == IF hex1 # <<>> /\ hex2 # <<>>
                   THEN calculate_levenshtein_similarity(hex1, hex2)
                   ELSE Zero
    IN  [student1 |-> student1,
         student2 |-> student2,
         source_similarity |-> src_sim,
         hex_levenshtein |-> hex_lev,
         max_hex_sim |-> hex_lev,
         avg_score |-> Mean(src_sim.token_seq, src_sim.levenshtein)]

-----------------------------------------------------------------------------
(* Step 3: selection *)

\* The test of threshold mode with the boundary included.
ThresholdSelectedInclusive(comp, hexThreshold, srcThreshold) ==
    RatGe(comp.max_hex_sim, hexThreshold) \/ RatGe(comp.avg_score, srcThreshold)

\* The test of threshold mode.
ThresholdSelected(comp, hexThreshold, srcThreshold) ==
    RatGt(comp.max_hex_sim, hexThreshold) \/ RatGt(comp.avg_score, srcThreshold)

\* top_n without the floor of 1.
TopNUnfloored(total_pairs, percent) == (total_pairs * percent[1]) \div percent[2]

\* top_n: int(total_pairs * top_percent), at least 1.
TopN(total_pairs, percent) ==
    LET n == (total_pairs * percent[1]) \div percent[2]
    IN  IF n < 1 THEN 1 ELSE n

\* The sort key with the metric ignored.
get_sort_keyAvgOnly(comp, metric) == comp.avg_score

get_sort_key(comp, metric) ==
    IF metric = "avg_score" THEN comp.avg_score
    ELSE IF metric = "levenshtein" THEN comp.source_similarity.levenshtein
    ELSE IF metric \in DOMAIN comp.source_similarity
         THEN comp.source_similarity[metric]
         ELSE comp.avg_score

\* all_comparisons.sort(key=get_sort_key, reverse=True)
SortByMetric(comps, metric) ==
    SortDescBy(comps, [i \in 1..Len(comps) |-> get_sort_key(comps[i], metric)])

\* all_comparisons[:top_n]
Prefix(seq, n) == SubSeq(seq, 1, Min(n, Len(seq)))

-----------------------------------------------------------------------------
(* The oracle: analyze_pair_with_llm *)

\* A parsed JSON value, as Python holds it.  value spells a scalar or says
\* what a list holds; an object has the two members the pipeline reads,
\* "absent" when it lacks one.
JValue(type, value) ==
    [type |-> type, value |-> value, is_plagiarized |-> "absent", reasoning |-> "absent"]
JObject(flag, reasoning) ==
    [type |-> "object", value |-> "", is_plagiarized |-> flag, reasoning |-> reasoning]
None == JValue("null", "null")

\* The dictionary analyze_pair_with_llm returns when it cannot judge.
FailureDict(message) == JObject("false", message)

\* What the model can answer: JSON text (bare, or inside a ```json fence),
\* prose without braces, prose around a JSON object, prose around braces
\* that hold no JSON.
ResponseContent(form, value) == [form |-> form, value |-> value]

\* json.loads(content) after the fences are removed, and the handler of
\* JSONDecodeError.  An error raised in that handler reaches the outer
\* except clause.
ParseResponse(content) ==
    IF content.form \in {"json", "fenced_json"} THEN content.value
    ELSE IF content.form = "prose_object" THEN content.value
    ELSE IF content.form = "prose_braces" THEN FailureDict("LLM API Error")
    ELSE FailureDict("Failed to parse LLM response")

\* The value analyze_pair_with_llm returns.  reply is what the API call did:
\* it raised (or timed out), or it answered with a content.
analyze_pair_with_llm(env, reply) ==
    IF env = "no_library" THEN FailureDict("library not installed")
    ELSE IF env = "no_api_key" THEN FailureDict("No API Key provided")
    ELSE IF reply.raised THEN FailureDict("LLM API Error")
    ELSE ParseResponse(reply.content)

-----------------------------------------------------------------------------
(* Step 4: the verdict *)

\* bool(x) of Python
PyTruthy(v) ==
    CASE v.type = "null" -> FALSE
      [] v.type = "number" -> v.value # "0"
      [] v.type = "string" -> v.value # ""
      [] v.type = "list" -> v.value # "[]"
      [] v.type = "object" -> v.is_plagiarized # "absent" \/ v.reasoning # "absent"
      [] OTHER -> TRUE

\* 'is_plagiarized' in x: "TypeError" where Python raises it.
PyContains(v) ==
    CASE v.type = "object" -> IF v.is_plagiarized # "absent" THEN "yes" ELSE "no"
      [] v.type = "string" -> IF v.value = "is_plagiarized" THEN "yes" ELSE "no"
      [] v.type = "list" -> IF v.value = "[is_plagiarized]" THEN "yes" ELSE "no"
      [] OTHER -> "TypeError"

\* bool(llm_result['is_plagiarized']) for an object that has the member
FlagTruthy(flag) == flag \in {"true", "nonempty string"}

\* Rule 1 without the test of the source score.
DefiniteMatchHexOnly(comp) == RatEq(comp.max_hex_sim, One)

\* Rule 1
DefiniteMatch(comp) == RatEq(comp.max_hex_sim, One) \/ RatEq(comp.avg_score, One)

Reason(kind, text, scores, names) ==
    [kind |-> kind, text |-> text, scores |-> scores, names |-> names]

\* The else branch of rule 3: the verdict the scores give.
FallbackVerdict(comp) ==
    [raised |-> FALSE,
     verdict |-> IF RatGt(comp.avg_score, Rat(85, 100))
                 THEN "Plagiarized" ELSE "NotPlagiarized",
     reason |-> Reason("fallback", "",
                       <<Format2f(comp.max_hex_sim), Format2f(comp.avg_score)>>, <<>>)]

\* The then branch of rule 3 with the presence of the member as the verdict.
OracleVerdictByPresence(llm_result) ==
    [raised |-> FALSE,
     verdict |-> IF llm_result.is_plagiarized # "absent"
                 THEN "Plagiarized" ELSE "NotPlagiarized",
     reason |-> Reason("llm",
                       IF llm_result.reasoning = "absent" THEN "N/A"
                       ELSE llm_result.reasoning,
                       <<>>, <<>>)]

\* The then branch of rule 3
OracleVerdict(llm_result) ==
    [raised |-> FALSE,
     verdict |-> IF FlagTruthy(llm_result.is_plagiarized)
                 THEN "Plagiarized" ELSE "NotPlagiarized",
     reason |-> Reason("llm",
                       IF llm_result.reasoning = "absent" THEN "N/A"
                       ELSE llm_result.reasoning,
                       <<>>, <<>>)]

TypeError == [raised |-> TRUE, verdict |-> "", reason |-> Reason("", "", <<>>, <<>>)]

\* Rule 3: if llm_result and 'is_plagiarized' in llm_result: ... else: ...
Rule3(llm_result, comp) ==
    IF ~PyTruthy(llm_result) THEN FallbackVerdict(comp)
    ELSE IF PyContains(llm_result) = "TypeError" THEN TypeError
    ELSE IF PyContains(llm_result) = "no" THEN FallbackVerdict(comp)
    ELSE IF llm_result.type = "object" THEN OracleVerdict(llm_result)
    ELSE TypeError

\* The call with the texts of the comparison in compile-to-assembly mode.
OracleArgumentsAsm(data, student1, student2) ==
    <<data[student1].asm_source, data[student2].asm_source>>

\* The two texts handed to analyze_pair_with_llm.
OracleArguments(data, student1, student2) ==
    <<data[student1].source, data[student2].source>>

\* The override without the test that the verdict is not Plagiarized.
IllegalOverrideAnyVerdict(v, data, student1, student2) ==
    IF data[student1].illegal_submission \/ data[student2].illegal_submission
    THEN [raised |-> v.raised,
          verdict |-> "InvalidSubmission",
          reason |-> Reason("illegal", "", <<>>,
                            (IF data[student1].illegal_submission
                             THEN <<student1>> ELSE <<>>)
                            \o (IF data[student2].illegal_submission
                                THEN <<student2>> ELSE <<>>))]
    ELSE v

\* The illegal-submission override.
IllegalOverride(v, data, student1, student2) ==
    IF (data[student1].illegal_submission \/ data[student2].illegal_submission)
       /\ v.verdict # "Plagiarized"
    THEN [raised |-> v.raised,
          verdict |-> "InvalidSubmission",
          reason |-> Reason("illegal", "", <<>>,
                            (IF data[student1].illegal_submission
                             THEN <<student1>> ELSE <<>>)
                            \o (IF data[student2].illegal_submission
                                THEN <<student2>> ELSE <<>>))]
    ELSE v

\* The entry with llm_triggered left at its initial value.
ResultEntryNeverTriggered(comp, llm_result, llm_triggered, pre, final) ==
    [student1 |-> comp.student1,
     student2 |-> comp.student2,
     source_similarity |-> comp.source_similarity,
     hex_levenshtein |-> comp.hex_levenshtein,
     max_hex_sim |-> comp.max_hex_sim,
     avg_score |-> comp.avg_score,
     llm_analysis |-> llm_result,
     llm_triggered |-> FALSE,
     pre_verdict |-> pre.verdict,
     pre_reason |-> pre.reason,
     final_verdict |-> final.verdict,
     verdict_reason |-> final.reason]

\* result_entry: the comparison with the analysis.  pre_verdict and
\* pre_reason are history: the values of verdict and verdict_reason before
\* the override, which the code overwrites.  The copies of the students'
\* texts in the entry are those of student_data and are left there.
ResultEntry(comp, llm_result, llm_triggered, pre, final) ==
    [student1 |-> comp.student1,
     student2 |-> comp.student2,
     source_similarity |-> comp.source_similarity,
     hex_levenshtein |-> comp.hex_levenshtein,
     max_hex_sim |-> comp.max_hex_sim,
     avg_score |-> comp.avg_score,
     llm_analysis |-> llm_result,
     llm_triggered |-> llm_triggered,
     pre_verdict |-> pre.verdict,
     pre_reason |-> pre.reason,
     final_verdict |-> final.verdict,
     verdict_reason |-> final.reason]

\* verdict_priority with InvalidSubmission not recognised.
verdict_priorityInvalidUnknown(res) ==
    IF res.final_verdict = "Plagiarized" THEN 0
    ELSE IF res.final_verdict = "NotPlagiarized" THEN 2
    ELSE 3

\* verdict_priority of generate_html_report
verdict_priority(res) ==
    IF res.final_verdict = "Plagiarized" THEN 0
    ELSE IF res.final_verdict = "InvalidSubmission" THEN 1
    ELSE IF res.final_verdict = "NotPlagiarized" THEN 2
    ELSE 3

\* results.sort(key=lambda x: x['avg_score'], reverse=True)
SortByAvgScore(res) ==
    SortDescBy(res, [i \in 1..Len(res) |-> res[i].avg_score])

\* sorted(results, key=verdict_priority)
SortByVerdict(res) ==
    SortDescBy(res, [i \in 1..Len(res) |-> Rat(0 - verdict_priority(res[i]), 1)])

\* has_anomaly of a student
has_anomaly(data, anomalies, student) ==
    anomalies[student] # <<>> \/ data[student].source_anomalies # <<>>

\* The test without the exclusion of the illegal students.
AnomalyListedAlsoIllegal(data, anomalies, student) ==
    has_anomaly(data, anomalies, student)

\* if data['has_anomaly'] and not data['illegal_submission']
AnomalyListed(data, anomalies, student) ==
    has_anomaly(data, anomalies, student) /\ ~data[student].illegal_submission

\* illegal_students
IllegalStudents(data) ==
    LET listed == SelectSeq([s \in 1..Len(data) |-> s],
                            LAMBDA s : data[s].illegal_submission)
    IN  [k \in 1..Len(listed) |->
            [student |-> listed[k], reason |-> data[listed[k]].illegal_reason]]

\* anomaly_students
AnomalyStudents(data, anomalies) ==
    LET listed == SelectSeq([s \in 1..Len(data) |-> s],
                            LAMBDA s : AnomalyListed(data, anomalies, s))
    IN  [k \in 1..Len(listed) |->
            [student |-> listed[k],
             hex_anomalies |-> anomalies[listed[k]],
             source_anomalies |-> data[listed[k]].source_anomalies,
             original_source |-> data[listed[k]].original_source,
             hex |-> data[listed[k]].hex]]

-----------------------------------------------------------------------------
(* The inputs of a run *)

\* Every list of at most MaxStudents submissions: student i is folder i.
StudentFiles ==
    UNION {[1..n -> Submissions] : n \in 0..MaxStudents}

\* <<hex_threshold, src_threshold>>
Thresholds == {<<Rat(7, 10), Rat(8, 10)>>, <<Rat(3, 4), Rat(13, 14)>>}
TopMetrics == {"avg_score", "levenshtein", "token_seq"}
TopPercents == {Rat(5, 100), Rat(7, 10)}
\* A percentage above 100%: every pair is selected.  It is run where the
\* oracle answers the same way at every call.
WholePercent == Rat(3, 2)

\* What the API call can do once the library and the key are there.
ParsedValues ==
    {JObject("true", "they match"), JObject("false", "they differ"),
     JObject("absent", "no flag"), None, JValue("number", "5")}

OracleReplies ==
    {[raised |-> TRUE, content |-> ResponseContent("none", None)]}
    \cup {[raised |-> FALSE, content |-> ResponseContent(form, v)] :
            form \in {"json", "fenced_json"}, v \in ParsedValues}
    \cup {[raised |-> FALSE, content |-> ResponseContent("prose_object", v)] :
            v \in {JObject("true", "they match"), JObject("false", "they differ")}}
    \cup {[raised |-> FALSE, content |-> ResponseContent(form, None)] :
            form \in {"prose", "prose_braces"}}

\* No function is called directly.
NoCall == [fn |-> "none", args |-> <<>>]

-----------------------------------------------------------------------------
(* check_plagiarism *)

Init ==
    /\ student_files \in StudentFiles
    /\ use_keil_compilation \in BOOLEAN
    /\ oracle_env \in {"no_library", "no_api_key", "ready"}
    /\ \/ /\ filter_mode = "threshold"
          /\ \E t \in Thresholds : hex_threshold = t[1] /\ src_threshold = t[2]
          /\ top_metric = "avg_score"
          /\ top_percent = Rat(5, 100)
       \/ /\ filter_mode = "top_percent"
          /\ hex_threshold = Rat(7, 10)
          /\ src_threshold = Rat(8, 10)
          /\ top_metric \in TopMetrics
          /\ top_percent \in TopPercents \cup
                (IF oracle_env = "ready" THEN {} ELSE {WholePercent})
    /\ student_data = <<>>
    /\ all_comparisons = <<>>
    /\ filtered_pairs = <<>>
    /\ results = <<>>
    /\ sorted_results = <<>>
    /\ oracle_calls = <<>>
    /\ idx = 0
    /\ pc = "step1"
    /\ median_hex_length = Zero
    /\ hex_anomalies = <<>>
    /\ integrity_calls = <<>>
    /\ illegal_students = <<>>
    /\ anomaly_students = <<>>
    /\ call = NoCall
    /\ ret = <<>>

\* The state of the first step that the later steps leave alone.
hexstate == <<median_hex_length, hex_anomalies, integrity_calls>>

\* The lists made for the reporter after step 4.
lists == <<illegal_students, anomaly_students>>

\* A direct call of a function and its value.
direct == <<call, ret>>

params == <<student_files, use_keil_compilation, filter_mode, hex_threshold,
            src_threshold, top_metric, top_percent, oracle_env>>

\* Step 1: the student_data of every student.
Preprocess ==
    /\ pc = "step1"
    /\ IF \E s \in 1..Len(student_files) :
             CompileRaises(student_files[s].source, use_keil_compilation)
       THEN /\ pc' = "raised"
            /\ UNCHANGED <<student_data, hexstate>>
       ELSE /\ student_data' =
                   [s \in 1..Len(student_files) |->
                       PreprocessStudent(student_files[s], use_keil_compilation)]
            /\ median_hex_length' =
                   MedianHexLength(HexLengthsOf(student_data'))
            /\ hex_anomalies' =
                   [s \in 1..Len(student_files) |->
                       HexAnomaliesOf(student_files[s], student_data'[s],
                                      median_hex_length')]
            /\ integrity_calls' = IntegrityCalls(student_data', median_hex_length')
            /\ pc' = "step2"
    /\ UNCHANGED <<params, direct, lists, all_comparisons, filtered_pairs, results,
                   sorted_results, oracle_calls, idx>>

\* Step 2: the scores of every pair of students.
ScorePairs ==
    /\ pc = "step2"
    /\ LET pairs == Combinations(1, 2, Len(student_data))
       IN  all_comparisons' =
               [k \in 1..Len(pairs) |->
                   Comparison(student_data, pairs[k][1], pairs[k][2],
                              use_keil_compilation)]
    /\ pc' = "step3"
    /\ UNCHANGED <<params, direct, lists, hexstate, student_data, filtered_pairs, results,
                   sorted_results, oracle_calls, idx>>

\* Step 3, threshold mode
FilterThreshold ==
    /\ pc = "step3"
    /\ filter_mode = "threshold"
    /\ filtered_pairs' =
           SelectSeq(all_comparisons,
                     LAMBDA comp : ThresholdSelected(comp, hex_threshold, src_threshold))
    /\ idx' = 1
    /\ pc' = "step4"
    /\ UNCHANGED <<params, direct, lists, hexstate, student_data, all_comparisons, results,
                   sorted_results, oracle_calls>>

\* Step 3, top-percent mode: all_comparisons is sorted in place.
FilterTopPercent ==
    /\ pc = "step3"
    /\ filter_mode = "top_percent"
    /\ all_comparisons' = SortByMetric(all_comparisons, top_metric)
    /\ filtered_pairs' = Prefix(all_comparisons',
                                TopN(Len(all_comparisons), top_percent))
    /\ idx' = 1
    /\ pc' = "step4"
    /\ UNCHANGED <<params, direct, lists, hexstate, student_data, results, sorted_results, oracle_calls>>

\* Step 4, one pass of the loop for a definite match (rule 1).
AnalyzeDefinite ==
    /\ pc = "step4"
    /\ idx <= Len(filtered_pairs)
    /\ DefiniteMatch(filtered_pairs[idx])
    /\ LET comp == filtered_pairs[idx]
           pre == [raised |-> FALSE, verdict |-> "Plagiarized",
                   reason |-> Reason("exact_match", "", <<>>, <<>>)]
           final == IllegalOverride(pre, student_data, comp.student1, comp.student2)
       IN  results' = Append(results, ResultEntry(comp, None, FALSE, pre, final))
    /\ idx' = idx + 1
    /\ UNCHANGED <<params, direct, lists, hexstate, student_data, all_comparisons, filtered_pairs,
                   sorted_results, oracle_calls, pc>>

\* Step 4, one pass of the loop for any other pair (rules 2 and 3): the
\* oracle is called; a TypeError of rule 3 leaves check_plagiarism.
AnalyzeWithOracle ==
    /\ pc = "step4"
    /\ idx <= Len(filtered_pairs)
    /\ ~DefiniteMatch(filtered_pairs[idx])
    /\ \E reply \in OracleReplies :
          LET comp == filtered_pairs[idx]
              args == OracleArguments(student_data, comp.student1, comp.student2)
              llm_result == analyze_pair_with_llm(oracle_env, reply)
              pre == Rule3(llm_result, comp)
              final == IllegalOverride(pre, student_data, comp.student1, comp.student2)
          IN  /\ oracle_calls' = Append(oracle_calls,
                                        [student1 |-> comp.student1,
                                         student2 |-> comp.student2,
                                         code1 |-> args[1], code2 |-> args[2]])
              /\ IF pre.raised
                 THEN /\ pc' = "raised"
                      /\ UNCHANGED <<results, idx>>
                 ELSE /\ results' = Append(results,
                                           ResultEntry(comp, llm_result, TRUE, pre, final))
                      /\ idx' = idx + 1
                      /\ pc' = pc
    /\ UNCHANGED <<params, direct, lists, hexstate, student_data, all_comparisons, filtered_pairs,
                   sorted_results>>

\* After the loop: results sorted by score, handed to generate_html_report,
\* which orders them by verdict, and returned.
Finish ==
    /\ pc = "step4"
    /\ idx > Len(filtered_pairs)
    /\ results' = SortByAvgScore(results)
    /\ illegal_students' = IllegalStudents(student_data)
    /\ anomaly_students' = AnomalyStudents(student_data, hex_anomalies)
    /\ sorted_results' = SortByVerdict(results')
    /\ pc' = "done"
    /\ UNCHANGED <<params, direct, hexstate, student_data, all_comparisons, filtered_pairs,
                   oracle_calls, idx>>

Next ==
    \/ Preprocess
    \/ ScorePairs
    \/ FilterThreshold
    \/ FilterTopPercent
    \/ AnalyzeDefinite
    \/ AnalyzeWithOracle
    \/ Finish

Spec == Init /\ [][Next]_vars

\* Step 1 of check_plagiarism, one pass of each of its loops at a time:
\* the first loop over the students, the median, the loop of the hex
\* checks, the loop that marks the students with anomalies.
HexPassInit ==
    /\ student_files \in UNION {[1..n -> HexPassSubmissions] : n \in 0..MaxStudents}
    /\ use_keil_compilation \in BOOLEAN
    /\ oracle_env = "ready"
    /\ filter_mode = "threshold"
    /\ hex_threshold = Rat(7, 10)
    /\ src_threshold = Rat(8, 10)
    /\ top_metric = "avg_score"
    /\ top_percent = Rat(5, 100)
    /\ student_data = <<>>
    /\ all_comparisons = <<>>
    /\ filtered_pairs = <<>>
    /\ results = <<>>
    /\ sorted_results = <<>>
    /\ oracle_calls = <<>>
    /\ idx = 1
    /\ pc = "collect"
    /\ median_hex_length = Zero
    /\ hex_anomalies = <<>>
    /\ integrity_calls = <<>>
    /\ illegal_students = <<>>
    /\ anomaly_students = <<>>
    /\ call = NoCall
    /\ ret = <<>>

\* What step 1 leaves alone.
later == <<all_comparisons, filtered_pairs, results, sorted_results, oracle_calls>>

\* One pass of the first loop: the student_data entry of student idx.
CollectStudent ==
    /\ pc = "collect"
    /\ idx <= Len(student_files)
    /\ IF CompileRaises(student_files[idx].source, use_keil_compilation)
       THEN /\ pc' = "raised"
            /\ UNCHANGED <<student_data, idx>>
       ELSE /\ student_data' =
                   Append(student_data,
                          PreprocessStudent(student_files[idx], use_keil_compilation))
            /\ idx' = idx + 1
            /\ pc' = pc
    /\ UNCHANGED <<params, direct, lists, hexstate, later>>

\* After the first loop: the median of the hex lengths above 0.
ComputeMedian ==
    /\ pc = "collect"
    /\ idx > Len(student_files)
    /\ median_hex_length' = MedianHexLength(HexLengthsOf(student_data))
    /\ idx' = 1
    /\ pc' = "check"
    /\ UNCHANGED <<params, direct, lists, later, student_data, hex_anomalies,
                   integrity_calls>>

\* One pass of the second loop: check_hex_integrity for student idx if its
\* hex_length is above 0.
CheckStudent ==
    /\ pc = "check"
    /\ idx <= Len(student_data)
    /\ hex_anomalies' =
           Append(hex_anomalies,
                  HexAnomaliesOf(student_files[idx], student_data[idx], median_hex_length))
    /\ integrity_calls' =
           IF student_data[idx].hex_length > 0
           THEN Append(integrity_calls,
                       [student |-> idx, hex_length |-> student_data[idx].hex_length,
                        median_length |-> median_hex_length])
           ELSE integrity_calls
    /\ idx' = idx + 1
    /\ UNCHANGED <<params, direct, lists, later, student_data, median_hex_length, pc>>

\* The third loop sets has_anomaly; step 2 follows.
MarkAnomalies ==
    /\ pc = "check"
    /\ idx > Len(student_data)
    /\ idx' = 0
    /\ pc' = "step2"
    /\ UNCHANGED <<params, direct, lists, later, student_data, hexstate>>

HexPassNext ==
    \/ CollectStudent
    \/ ComputeMedian
    \/ CheckStudent
    \/ MarkAnomalies

HexPassSpec == HexPassInit /\ [][HexPassNext]_vars

\* check_plagiarism in compile-to-assembly mode on folders with C files
\* whose compilation fails.
CompileInit ==
    /\ student_files \in UNION {[1..n -> CompileSubmissions] : n \in 0..MaxStudents}
    /\ use_keil_compilation = TRUE
    /\ oracle_env = "ready"
    /\ filter_mode \in {"threshold", "top_percent"}
    /\ hex_threshold = Rat(7, 10)
    /\ src_threshold = Rat(8, 10)
    /\ top_metric = "avg_score"
    /\ top_percent = Rat(7, 10)
    /\ student_data = <<>>
    /\ all_comparisons = <<>>
    /\ filtered_pairs = <<>>
    /\ results = <<>>
    /\ sorted_results = <<>>
    /\ oracle_calls = <<>>
    /\ idx = 0
    /\ pc = "step1"
    /\ median_hex_length = Zero
    /\ hex_anomalies = <<>>
    /\ integrity_calls = <<>>
    /\ illegal_students = <<>>
    /\ anomaly_students = <<>>
    /\ call = NoCall
    /\ ret = <<>>

CompileSpec == CompileInit /\ [][Next]_vars

-----------------------------------------------------------------------------
(* Direct calls of the functions, as the test suites make them *)

\* The longest text, token list and list of lengths of the enumerated calls.
MaxLen == 3

Alphabet == {"a", "b", " "}
Texts == UNION {[1..n -> Alphabet] : n \in 0..MaxLen}

\* "aaaa" and "bbbb"; "mov a, #55h" and "mov a, #56h"
LevenshteinExamples ==
    {<<<<"a", "a", "a", "a">>, <<"b", "b", "b", "b">>>>,
     <<<<"m", "o", "v", " ", "a", ",", " ", "#", "5", "5", "h">>, <<"m", "o", "v", " ", "a", ",", " ", "#", "5", "6", "h">>>>}

\* "mov a, #55h add a, r0" and "mov a, #85 add a, r1"
TokenSequenceExamples ==
    {<<<<"m", "o", "v", " ", "a", ",", " ", "#", "5", "5", "h", " ", "a", "d", "d", " ", "a", ",", " ", "r", "0">>, 
      <<"m", "o", "v", " ", "a", ",", " ", "#", "8", "5", " ", "a", "d", "d", " ", "a", ",", " ", "r", "1">>>>}

TokenAlphabet == {"mov", "a,", "r0"}
TokenLists == UNION {[1..n -> TokenAlphabet] : n \in 0..MaxLen}
LcsExamples ==
    {<<<<"mov", "a,", "#55h", "add", "a,", "r0">>, 
      <<"mov", "a,", "#85", "add", "a,", "r1">>>>}

HexLengths == {0, 10, 20, 30}
LengthLists == UNION {[1..n -> HexLengths] : n \in 0..MaxLen}

\* Seven messages of normalize_hex, of which prefixes are taken.
SevenErrors ==
    <<"Line 1: Missing ':' prefix", "Line 2: Line too short",
      "Line 3: Insufficient data", "Line 4: Line too short",
      "Line 5: Missing ':' prefix", "Line 6: Line too short",
      "Line 7: Insufficient data">>
HexInfos ==
    {[has_eof |-> e, format_errors |-> SubSeq(SevenErrors, 1, n),
      valid_lines |-> 1, data_length |-> 0] : e \in BOOLEAN, n \in {0, 1, 5, 6}}
IntegrityLengths == {0, 14, 15, 16, 19, 20, 24, 25, 26, 40}
IntegrityMedians == {Rat(0, 1), Rat(20, 1), Rat(35, 2)}

\* The lines source texts are made of: an empty line, a tab, an indented
\* comment, "ORG 0", "s: org", "end:", "mov a" and ":".
SourceLines ==
    {<<>>, <<"\t">>, <<" ", ";", "c">>, <<"O", "R", "G", " ", "0">>,
     <<"s", ":", " ", "o", "r", "g">>, <<"e", "n", "d", ":">>,
     <<"m", "o", "v", " ", "a">>, <<":">>}
SourceBodies == UNION {[1..n -> SourceLines] : n \in 0..MaxLen}

\* <<line, count, terminated>>: the line that follows the body count times,
\* and whether the last line of the text ends with "\n".
Paddings ==
    {<<<<"m", "o", "v", " ", "a">>, 0, TRUE>>, <<<<"m", "o", "v", " ", "a">>, 0, FALSE>>,
     <<<<"m", "o", "v", " ", "a">>, 4, TRUE>>, <<<<"m", "o", "v", " ", "a">>, 7, FALSE>>,
     <<<<"m", "o", "v", " ", "a">>, 9, TRUE>>, <<<<";", "c">>, 4, TRUE>>,
     <<<<";", "c">>, 12, FALSE>>, <<<<>>, 3, TRUE>>}

RECURSIVE JoinLines(_)
JoinLines(lines) ==
    IF lines = <<>> THEN <<>>
    ELSE Head(lines) \o <<"\n">> \o JoinLines(Tail(lines))

SourceText(body, pad) ==
    LET text == JoinLines(body \o [k \in 1..pad[2] |-> pad[1]])
    IN  IF pad[3] \/ text = <<>> THEN text ELSE SubSeq(text, 1, Len(text) - 1)

\* The lines hex texts are made of:
\*   ":02000000AbCd12"
\*   ":00000001FF"
\*   " "
\*   "01000000EF12"
\*   ":0000000"
\*   ":GG000000AB12"
\*   ":0300000002"
\*   ":+1000000EF12"
\*   ":01000004AB12"
\*   " :0100000012FF"
\*   ":010000 0CD12"
\*   ":-1000000AB12"
\*   ":0100000GAB12"
HexLines ==
    {<<":", "0", "2", "0", "0", "0", "0", "0", "0", "A", "b", "C", "d", "1", "2">>,
     <<":", "0", "0", "0", "0", "0", "0", "0", "1", "F", "F">>,
     <<" ">>,
     <<"0", "1", "0", "0", "0", "0", "0", "0", "E", "F", "1", "2">>,
     <<":", "0", "0", "0", "0", "0", "0", "0">>,
     <<":", "G", "G", "0", "0", "0", "0", "0", "0", "A", "B", "1", "2">>,
     <<":", "0", "3", "0", "0", "0", "0", "0", "0", "0", "2">>,
     <<":", "+", "1", "0", "0", "0", "0", "0", "0", "E", "F", "1", "2">>,
     <<":", "0", "1", "0", "0", "0", "0", "0", "4", "A", "B", "1", "2">>,
     <<" ", ":", "0", "1", "0", "0", "0", "0", "0", "0", "1", "2", "F", "F">>,
     <<":", "0", "1", "0", "0", "0", "0", " ", "0", "C", "D", "1", "2">>,
     <<":", "-", "1", "0", "0", "0", "0", "0", "0", "A", "B", "1", "2">>,
     <<":", "0", "1", "0", "0", "0", "0", "0", "G", "A", "B", "1", "2">>}
HexTexts == {JoinLines(body) : body \in UNION {[1..n -> HexLines] : n \in 0..MaxLen}}

\* The outputs of the compiler: nothing, or one diagnostic.
SyntaxError == <<"s", "y", "n", "t", "a", "x", " ", "e", "r", "r", "o", "r">>
FatalError == <<"f", "a", "t", "a", "l">>
\* "MOV A,#55H"
Listing == <<"M", "O", "V", " ", "A", ",", "#", "5", "5", "H">>
CompileEnvs ==
    {CompileEnv(found, exists, copy_ok, run, returncode, stdout, stderr, lst, a51) :
        found \in BOOLEAN, exists \in BOOLEAN, copy_ok \in BOOLEAN,
        run \in {"exit", "timeout", "error"}, returncode \in {0, 1},
        stdout \in {<<>>, SyntaxError}, stderr \in {<<>>, FatalError},
        lst \in BOOLEAN, a51 \in BOOLEAN}

Call(fn, args) == [fn |-> fn, args |-> args]

DirectInit ==
    /\ \/ \E a \in (Texts \X Texts) \cup LevenshteinExamples \cup TokenSequenceExamples :
             call = Call("calculate_token_sequence_similarity", a)
       \/ \E a \in (Texts \X Texts) \cup LevenshteinExamples :
             call = Call("calculate_levenshtein_similarity", a)
       \/ \E a \in (TokenLists \X TokenLists) \cup LcsExamples :
             call = Call("lcs_length", a)
       \/ \E a \in Submissions \X Submissions \X BOOLEAN :
             call = Call("score_pair", a)
       \/ \E a \in LengthLists :
             call = Call("median_hex_length", <<a>>)
       \/ \E a \in HexInfos \X IntegrityLengths \X IntegrityMedians :
             call = Call("check_hex_integrity", a)
       \/ \E body \in SourceBodies, pad \in Paddings :
             \E ext \in IF pad[2] = 0 THEN {".asm", ".a51", ".c"} ELSE {".asm"} :
                call = Call("validate_source_code", <<SourceText(body, pad), ext>>)
       \/ \E a \in HexTexts :
             call = Call("normalize_hex", <<a>>)
       \/ \E a \in CompileEnvs :
             call = Call("compile_c_to_asm_keil", <<a>>)
    /\ ret = <<>>
    /\ student_files = <<>>
    /\ use_keil_compilation = FALSE
    /\ filter_mode = "threshold"
    /\ hex_threshold = Rat(7, 10)
    /\ src_threshold = Rat(8, 10)
    /\ top_metric = "avg_score"
    /\ top_percent = Rat(5, 100)
    /\ oracle_env = "ready"
    /\ student_data = <<>>
    /\ all_comparisons = <<>>
    /\ filtered_pairs = <<>>
    /\ results = <<>>
    /\ sorted_results = <<>>
    /\ oracle_calls = <<>>
    /\ idx = 0
    /\ pc = "direct"
    /\ median_hex_length = Zero
    /\ hex_anomalies = <<>>
    /\ integrity_calls = <<>>
    /\ illegal_students = <<>>
    /\ anomaly_students = <<>>

pipeline == <<params, student_data, all_comparisons, filtered_pairs, results,
              sorted_results, oracle_calls, idx, pc, hexstate, lists>>

Returns(fn, value) ==
    /\ call.fn = fn
    /\ ret = <<>>
    /\ ret' = <<value>>
    /\ UNCHANGED <<call, pipeline>>

CallTokenSequenceSimilarity ==
    /\ call.fn = "calculate_token_sequence_similarity"
    /\ Returns("calculate_token_sequence_similarity",
               calculate_token_sequence_similarity(call.args[1], call.args[2]))

CallLevenshteinSimilarity ==
    /\ call.fn = "calculate_levenshtein_similarity"
    /\ Returns("calculate_levenshtein_similarity",
               calculate_levenshtein_similarity(call.args[1], call.args[2]))

CallLcsLength ==
    /\ call.fn = "lcs_length"
    /\ Returns("lcs_length", lcs_length(call.args[1], call.args[2]))

\* The first loop for two students, then the scoring of their pair.
CallScorePair ==
    /\ call.fn = "score_pair"
    /\ Returns("score_pair",
               Comparison(<<PreprocessStudent(call.args[1], call.args[3]),
                            PreprocessStudent(call.args[2], call.args[3])>>,
                          1, 2, call.args[3]))

CallMedianHexLength ==
    /\ call.fn = "median_hex_length"
    /\ Returns("median_hex_length", MedianHexLength(call.args[1]))

CallCheckHexIntegrity ==
    /\ call.fn = "check_hex_integrity"
    /\ Returns("check_hex_integrity",
               check_hex_integrity(call.args[1], call.args[2], call.args[3]))

CallValidateSourceCode ==
    /\ call.fn = "validate_source_code"
    /\ Returns("validate_source_code",
               validate_source_code(call.args[1], call.args[2]))

CallNormalizeHex ==
    /\ call.fn = "normalize_hex"
    /\ Returns("normalize_hex", normalize_hex(call.args[1]))

CallCompileCToAsmKeil ==
    /\ call.fn = "compile_c_to_asm_keil"
    /\ Returns("compile_c_to_asm_keil", compile_c_to_asm_keil(call.args[1], Listing))

DirectNext ==
    \/ CallTokenSequenceSimilarity
    \/ CallLevenshteinSimilarity
    \/ CallLcsLength
    \/ CallScorePair
    \/ CallMedianHexLength
    \/ CallCheckHexIntegrity
    \/ CallValidateSourceCode
    \/ CallNormalizeHex
    \/ CallCompileCToAsmKeil

DirectSpec == DirectInit /\ [][DirectNext]_vars

-----------------------------------------------------------------------------
(* Properties *)

Analysed == pc \in {"step4", "done", "raised"}
ResultIdx == 1..Len(results)
PairOf(r) == <<r.student1, r.student2>>

\* The messages of the dictionaries analyze_pair_with_llm returns when the
\* library or the key is missing, the call raises, or nothing parses.
FailureMessages ==
    {"library not installed", "No API Key provided", "LLM API Error",
     "Failed to parse LLM response"}

\* The oracle was called for the entry and could not judge.
OracleFailed(r) ==
    /\ r.llm_triggered
    /\ r.llm_analysis.type = "object"
    /\ r.llm_analysis.reasoning \in FailureMessages

\* An object with a boolean is_plagiarized and a string reasoning.
WellFormed(v) ==
    /\ v.type = "object"
    /\ v.is_plagiarized \in {"true", "false"}
    /\ v.reasoning # "absent"

ScoreVerdict(r) ==
    IF RatGt(r.avg_score, Rat(85, 100)) THEN "Plagiarized" ELSE "NotPlagiarized"

\* C1: every analysed pair whose oracle call failed (library or key
\* missing, call raised, response unparsable) has the verdict of the scores
\* before the override, Plagiarized iff avg_score > 0.85, with a fallback
\* reason that carries the two scores.
C1_FallbackWhenOracleFails ==
    \A i \in ResultIdx :
        OracleFailed(results[i]) =>
            /\ results[i].pre_verdict = ScoreVerdict(results[i])
            /\ results[i].pre_reason.kind = "fallback"
            /\ results[i].pre_reason.scores =
                   <<Format2f(results[i].max_hex_sim), Format2f(results[i].avg_score)>>

\* C2: whatever the oracle answers, check_plagiarism does not raise, a pair
\* whose oracle result has another shape than {is_plagiarized: bool,
\* reasoning: string} has the fallback verdict, and at the end every selected
\* pair has its entry.  (The verdict after a failed call is C1.)
C2_OracleNeverFatal ==
    /\ pc # "raised"
    /\ \A i \in ResultIdx :
          (results[i].llm_triggered /\ ~WellFormed(results[i].llm_analysis))
          => /\ results[i].pre_reason.kind = "fallback"
             /\ results[i].pre_verdict = ScoreVerdict(results[i])
    /\ pc = "done" => Len(results) = Len(filtered_pairs)

\* C3: an analysed pair with hex_score = 1 or avg_score = 1 is Plagiarized
\* before the override with llm_triggered false, and no call of the oracle
\* was made for a pair with such scores.
C3_DefiniteMatchSkipsOracle ==
    /\ \A i \in ResultIdx :
          (RatEq(results[i].max_hex_sim, One) \/ RatEq(results[i].avg_score, One))
          => /\ results[i].pre_verdict = "Plagiarized"
             /\ results[i].llm_triggered = FALSE
             /\ results[i].llm_analysis = None
    /\ \A k \in 1..Len(oracle_calls) : \A j \in 1..Len(all_comparisons) :
          (all_comparisons[j].student1 = oracle_calls[k].student1
           /\ all_comparisons[j].student2 = oracle_calls[k].student2)
          => /\ ~RatEq(all_comparisons[j].max_hex_sim, One)
             /\ ~RatEq(all_comparisons[j].avg_score, One)

\* A definite match by the hex score alone, as in the spec's example.
C3_Witness ==
    \E i \in ResultIdx :
        /\ RatEq(results[i].max_hex_sim, One)
        /\ ~RatEq(results[i].avg_score, One)
        /\ results[i].final_verdict = "Plagiarized"
        /\ pc = "done"

IllegalOf(r) ==
    {s \in {r.student1, r.student2} : student_data[s].illegal_submission}
SeqRange(q) == {q[i] : i \in 1..Len(q)}

\* C4: an entry that is not Plagiarized before the override and has an
\* illegal participant ends InvalidSubmission with a reason that lists
\* exactly the illegal participants; an entry that is Plagiarized before the
\* override stays Plagiarized, with its reason.
C4_IllegalOverride ==
    \A i \in ResultIdx :
        LET r == results[i]
        IN  /\ (IllegalOf(r) # {} /\ r.pre_verdict # "Plagiarized")
               => /\ r.final_verdict = "InvalidSubmission"
                  /\ r.verdict_reason.kind = "illegal"
                  /\ SeqRange(r.verdict_reason.names) = IllegalOf(r)
                  /\ Len(r.verdict_reason.names) = Cardinality(IllegalOf(r))
            /\ r.pre_verdict = "Plagiarized"
               => /\ r.final_verdict = "Plagiarized"
                  /\ r.verdict_reason = r.pre_reason

\* One run with an overridden entry and with a Plagiarized entry of an
\* illegal participant.
C4_Witness ==
    /\ pc = "done"
    /\ \E i \in ResultIdx :
          /\ results[i].pre_verdict = "NotPlagiarized"
          /\ results[i].final_verdict = "InvalidSubmission"
    /\ \E i \in ResultIdx :
          /\ IllegalOf(results[i]) # {}
          /\ results[i].final_verdict = "Plagiarized"

\* C5: an entry that is no definite match and whose oracle result is an
\* object with a boolean is_plagiarized and a string reasoning is, before
\* the override, Plagiarized iff is_plagiarized is true, and its reason is
\* the oracle's reasoning.
C5_OracleVerdictUsed ==
    \A i \in ResultIdx :
        (results[i].llm_triggered /\ WellFormed(results[i].llm_analysis))
        => /\ results[i].pre_verdict = "Plagiarized"
                <=> results[i].llm_analysis.is_plagiarized = "true"
           /\ results[i].pre_verdict \in {"Plagiarized", "NotPlagiarized"}
           /\ results[i].pre_reason.kind = "llm"
           /\ results[i].pre_reason.text = results[i].llm_analysis.reasoning

\* The oracle judged one pair plagiarized and another one not.
C5_Witness ==
    /\ \E i \in ResultIdx :
          /\ results[i].llm_analysis = JObject("true", "they match")
          /\ results[i].pre_verdict = "Plagiarized"
    /\ \E i \in ResultIdx :
          /\ results[i].llm_analysis = JObject("false", "they differ")
          /\ results[i].pre_verdict = "NotPlagiarized"

\* C6 as claimed: the two texts of every oracle call are the original_source
\* of the two students.
C6_OracleGetsOriginalSource ==
    \A k \in 1..Len(oracle_calls) :
        /\ oracle_calls[k].code1 = student_data[oracle_calls[k].student1].original_source
        /\ oracle_calls[k].code2 = student_data[oracle_calls[k].student2].original_source

\* C6: the two texts of every oracle call are the cleaned source texts (the
\* field source) of the two students, in every scoring mode.
C6_OracleGetsCleanedSource ==
    \A k \in 1..Len(oracle_calls) :
        /\ oracle_calls[k].code1 = student_data[oracle_calls[k].student1].source
        /\ oracle_calls[k].code2 = student_data[oracle_calls[k].student2].source

\* A call in compile-to-assembly mode for a student whose three texts differ.
C6_Witness ==
    \E k \in 1..Len(oracle_calls) :
        LET d == student_data[oracle_calls[k].student2]
        IN  /\ use_keil_compilation
            /\ oracle_calls[k].code2 = d.source
            /\ d.source # d.asm_source
            /\ d.source # d.original_source
            /\ d.asm_source # <<>>

Priority(outcome) ==
    CASE outcome = "Plagiarized" -> 0
      [] outcome = "InvalidSubmission" -> 1
      [] outcome = "NotPlagiarized" -> 2
      [] OTHER -> 3

\* Ordered by outcome priority, and by avg_score descending inside one outcome.
OrderedByOutcomeThenScore(list) ==
    \A i, j \in 1..Len(list) :
        i < j =>
            /\ Priority(list[i].final_verdict) <= Priority(list[j].final_verdict)
            /\ list[i].final_verdict = list[j].final_verdict
               => RatGe(list[i].avg_score, list[j].avg_score)

\* Position of the entry of a pair in a list of entries (0 if it has none).
PositionIn(list, pair) ==
    IF \E i \in 1..Len(list) : PairOf(list[i]) = pair
    THEN CHOOSE i \in 1..Len(list) : PairOf(list[i]) = pair
    ELSE 0

\* C7 as claimed: the list check_plagiarism returns (results) is ordered by
\* outcome priority, and by score inside one outcome.
C7_ReturnedListOrderedByOutcome ==
    pc = "done" => OrderedByOutcomeThenScore(results)

\* C7: the list generate_html_report renders (sorted_results) holds the
\* entries of results ordered by outcome priority, Plagiarized, then
\* InvalidSubmission, then NotPlagiarized; entries of one outcome are in
\* score-descending order and keep the order they have in results, the list
\* check_plagiarism returns, which is ordered by avg_score descending alone.
C7_ReportOrderedByOutcome ==
    pc = "done" =>
        /\ OrderedByOutcomeThenScore(sorted_results)
        /\ Len(sorted_results) = Len(results)
        /\ SeqRange(sorted_results) = SeqRange(results)
        /\ \A i, j \in 1..Len(sorted_results) :
              (i < j /\ sorted_results[i].final_verdict = sorted_results[j].final_verdict)
              => PositionIn(results, PairOf(sorted_results[i]))
                     < PositionIn(results, PairOf(sorted_results[j]))
        /\ \A i, j \in ResultIdx :
              i < j => RatGe(results[i].avg_score, results[j].avg_score)

\* The report moves an entry in front of an entry of a higher score and a
\* later outcome, and keeps two entries of one outcome in their order.
C7_Witness ==
    /\ pc = "done"
    /\ sorted_results # results
    /\ \E i, j \in 1..Len(sorted_results) :
          /\ i < j
          /\ Priority(sorted_results[i].final_verdict)
                 < Priority(sorted_results[j].final_verdict)
          /\ RatGt(sorted_results[j].avg_score, sorted_results[i].avg_score)
    /\ \E i, j \in 1..Len(sorted_results) :
          /\ i < j
          /\ sorted_results[i].final_verdict = sorted_results[j].final_verdict

ClaimedCount(total, percent) == Max(1, (total * percent[1]) \div percent[2])

\* C9 as claimed: in top-percent mode the number of selected pairs is
\* max(1, floor(total_pairs * percent)), whatever the number of pairs.
C9_TopCountAlwaysAtLeastOne ==
    (Analysed /\ filter_mode = "top_percent") =>
        Len(filtered_pairs) = ClaimedCount(Len(all_comparisons), top_percent)

\* C9: in top-percent mode the number of selected pairs is
\* min(total_pairs, max(1, floor(total_pairs * percent))): the selection is
\* empty only when no pair was scored.
C9_TopCount ==
    (Analysed /\ filter_mode = "top_percent") =>
        /\ Len(filtered_pairs) =
               Min(Len(all_comparisons), ClaimedCount(Len(all_comparisons), top_percent))
        /\ all_comparisons # <<>> => filtered_pairs # <<>>

\* Three pairs at 5%: the floor is 0 and one pair is selected.
C9_Witness ==
    /\ Analysed
    /\ filter_mode = "top_percent"
    /\ Len(all_comparisons) = 3
    /\ (Len(all_comparisons) * top_percent[1]) \div top_percent[2] = 0
    /\ Len(filtered_pairs) = 1

\* The value of the configured metric.
MetricOf(comp) ==
    CASE top_metric = "token_seq" -> comp.source_similarity.token_seq
      [] top_metric = "levenshtein" -> comp.source_similarity.levenshtein
      [] OTHER -> comp.avg_score

\* The iteration order of step 2: the order of itertools.combinations.
ScoredBefore(c1, c2) ==
    \/ c1.student1 < c2.student1
    \/ c1.student1 = c2.student1 /\ c1.student2 < c2.student2

\* c1 comes before c2 in the descending stable order of the metric.
RanksBefore(c1, c2) ==
    \/ RatGt(MetricOf(c1), MetricOf(c2))
    \/ RatEq(MetricOf(c1), MetricOf(c2)) /\ ScoredBefore(c1, c2)

\* C10: in top-percent mode the selected pairs are a prefix of the scored
\* pairs in descending order of the configured metric, pairs of equal metric
\* in their order of scoring: the selection is in that order and every
\* selected pair comes before every pair left out.
C10_TopSelectionIsSortedPrefix ==
    (Analysed /\ filter_mode = "top_percent") =>
        /\ SeqRange(filtered_pairs) \subseteq SeqRange(all_comparisons)
        /\ Cardinality(SeqRange(filtered_pairs)) = Len(filtered_pairs)
        /\ \A i, j \in 1..Len(filtered_pairs) :
              i < j => RanksBefore(filtered_pairs[i], filtered_pairs[j])
        /\ \A sel \in SeqRange(filtered_pairs) :
              \A out \in SeqRange(all_comparisons) \ SeqRange(filtered_pairs) :
                  RanksBefore(sel, out)

\* Two pairs of equal metric, the earlier one selected and the later one
\* left out, while the two disagree on another metric.
C10_Witness ==
    /\ Analysed
    /\ filter_mode = "top_percent"
    /\ \E sel \in SeqRange(filtered_pairs) :
          \E out \in SeqRange(all_comparisons) \ SeqRange(filtered_pairs) :
              /\ RatEq(MetricOf(sel), MetricOf(out))
              /\ RatGt(out.avg_score, sel.avg_score)

-----------------------------------------------------------------------------
(* Properties of the direct calls *)

\* The direct call of fn has returned.
Returned(fn) == call.fn = fn /\ ret # <<>>

TokenSeqCall == "calculate_token_sequence_similarity"
LevenshteinCall == "calculate_levenshtein_similarity"

\* The four scores of an entry of all_comparisons equal those of another.
SameScores(c1, c2) ==
    /\ RatEq(c1.source_similarity.token_seq, c2.source_similarity.token_seq)
    /\ RatEq(c1.source_similarity.levenshtein, c2.source_similarity.levenshtein)
    /\ RatEq(c1.max_hex_sim, c2.max_hex_sim)
    /\ RatEq(c1.avg_score, c2.avg_score)

\* C11: the value of calculate_token_sequence_similarity(x, y) is that of
\* the call with y and x, the same for calculate_levenshtein_similarity, and
\* the scores of a pair of students are those of the pair taken in the other
\* order.
C11_ScoresSymmetric ==
    /\ Returned(TokenSeqCall) =>
          RatEq(ret[1], calculate_token_sequence_similarity(call.args[2], call.args[1]))
    /\ Returned(LevenshteinCall) =>
          RatEq(ret[1], calculate_levenshtein_similarity(call.args[2], call.args[1]))
    /\ Returned("score_pair") =>
          SameScores(ret[1],
                     Comparison(<<PreprocessStudent(call.args[2], call.args[3]),
                                  PreprocessStudent(call.args[1], call.args[3])>>,
                                1, 2, call.args[3]))

\* Two texts with token lists of different lengths and a common token.
C11_Witness ==
    /\ Returned(TokenSeqCall)
    /\ Len(tokenize_code(call.args[1])) < Len(tokenize_code(call.args[2]))
    /\ RatGt(ret[1], Zero)

\* A score from 0 to 1, as a fraction with a positive denominator.
InUnitInterval(x) == x[2] > 0 /\ x[1] >= 0 /\ x[1] <= x[2]

\* C12: every value of calculate_token_sequence_similarity and of
\* calculate_levenshtein_similarity lies in [0, 1], empty and whitespace-only
\* texts included, and so do the four scores of a pair of students.
C12_ScoresInUnitInterval ==
    /\ (Returned(TokenSeqCall) \/ Returned(LevenshteinCall)) => InUnitInterval(ret[1])
    /\ Returned("score_pair") =>
          /\ InUnitInterval(ret[1].source_similarity.token_seq)
          /\ InUnitInterval(ret[1].source_similarity.levenshtein)
          /\ InUnitInterval(ret[1].max_hex_sim)
          /\ InUnitInterval(ret[1].hex_levenshtein)
          /\ InUnitInterval(ret[1].avg_score)

\* A pair of students whose two source scores are both 1.
C12_Witness ==
    /\ Returned("score_pair")
    /\ RatEq(ret[1].source_similarity.token_seq, One)
    /\ RatEq(ret[1].source_similarity.levenshtein, One)

\* C13: for both functions the score of two empty texts is 1.0, the score of
\* a non-empty text and the empty text is 0.0 in either order, and the score
\* of a non-empty text and itself is 1.0.
C13_IdentityAndEmptiness ==
    (Returned(TokenSeqCall) \/ Returned(LevenshteinCall)) =>
        /\ (call.args[1] = <<>> /\ call.args[2] = <<>>) => RatEq(ret[1], One)
        /\ (call.args[1] # <<>> /\ call.args[2] = <<>>) => RatEq(ret[1], Zero)
        /\ (call.args[1] = <<>> /\ call.args[2] # <<>>) => RatEq(ret[1], Zero)
        /\ (call.args[1] # <<>> /\ call.args[1] = call.args[2]) => RatEq(ret[1], One)
        /\ ret[1][2] > 0

\* A whitespace-only text scored against itself by the token function.
C13_Witness ==
    /\ Returned(TokenSeqCall)
    /\ call.args[1] = <<" ", " ">>
    /\ call.args[2] = call.args[1]

\* C14: calculate_token_sequence_similarity returns 1.0 exactly when the
\* token lists of the two texts are equal, two empty token lists included
\* (the empty text against a whitespace-only text), and 0.0 when exactly one
\* token list is empty.
C14_OneIffSameTokens ==
    Returned(TokenSeqCall) =>
        LET tokens1 == tokenize_code(call.args[1])
            tokens2 == tokenize_code(call.args[2])
        IN  /\ RatEq(ret[1], One) <=> (tokens1 = tokens2)
            /\ ((tokens1 = <<>>) # (tokens2 = <<>>)) => RatEq(ret[1], Zero)

RECURSIVE Pick(_, _, _)
\* The elements of seq at the positions of S from position i on, in order.
Pick(seq, S, i) ==
    IF i > Len(seq) THEN <<>>
    ELSE (IF i \in S THEN <<seq[i]>> ELSE <<>>) \o Pick(seq, S, i + 1)

Subsequences(seq) == {Pick(seq, S, 1) : S \in SUBSET (1..Len(seq))}

\* The length of a longest common subsequence, by enumeration.
LongestCommon(seq1, seq2) ==
    LET common == Subsequences(seq1) \cap Subsequences(seq2)
    IN  CHOOSE n \in 0..Len(seq1) :
            /\ \E c \in common : Len(c) = n
            /\ \A c \in common : Len(c) <= n

\* C15: lcs_length returns the length of a longest common subsequence of the
\* two token lists (0 when one is empty or they share no token), and for two
\* texts that both hold tokens calculate_token_sequence_similarity is
\* 2 * LCS / (len1 + len2): the six-token example has LCS 4 and score 8/12.
C15_LcsLengthAndScore ==
    /\ Returned("lcs_length") =>
          /\ ret[1] = LongestCommon(call.args[1], call.args[2])
          /\ call.args \in LcsExamples => ret[1] = 4
    /\ Returned(TokenSeqCall) =>
          LET tokens1 == tokenize_code(call.args[1])
              tokens2 == tokenize_code(call.args[2])
          IN  /\ (tokens1 # <<>> /\ tokens2 # <<>>) =>
                    RatEq(ret[1], Rat(2 * LongestCommon(tokens1, tokens2),
                                      Len(tokens1) + Len(tokens2)))
              /\ call.args \in TokenSequenceExamples => RatEq(ret[1], Rat(8, 12))

\* Two token lists whose longest common subsequence is no common prefix,
\* suffix or substring: tokens are skipped on both sides.
C15_Witness ==
    /\ Returned("lcs_length")
    /\ call.args \in LcsExamples
    /\ ret[1] = 4

RECURSIVE EditDistance(_, _)
\* The edit distance with an insertion or a deletion at 1 and a substitution
\* at 2.
EditDistance(x, y) ==
    IF x = <<>> THEN Len(y)
    ELSE IF y = <<>> THEN Len(x)
    ELSE LET del == EditDistance(Tail(x), y) + 1
             ins == EditDistance(x, Tail(y)) + 1
             sub == EditDistance(Tail(x), Tail(y))
                        + (IF Head(x) = Head(y) THEN 0 ELSE 2)
         IN  Min(Min(del, ins), sub)

\* C16: for two non-empty texts calculate_levenshtein_similarity is
\* (len(x) + len(y) - d) / (len(x) + len(y)), d the edit distance with
\* insertion and deletion at 1 and substitution at 2; it is 1.0 exactly when
\* the texts are equal and 0.0 when they share no character.  (The distance
\* is enumerated for texts of at most MaxLen + 1 characters.)
C16_LevenshteinRatio ==
    (Returned(LevenshteinCall) /\ call.args[1] # <<>> /\ call.args[2] # <<>>) =>
        LET x == call.args[1]
            y == call.args[2]
            lensum == Len(x) + Len(y)
        IN  /\ (Len(x) <= MaxLen + 1 /\ Len(y) <= MaxLen + 1) =>
                  RatEq(ret[1], Rat(lensum - EditDistance(x, y), lensum))
            /\ RatEq(ret[1], One) <=> (x = y)
            /\ (SeqRange(x) \cap SeqRange(y) = {}) => RatEq(ret[1], Zero)
            /\ call.args = <<<<"a", "a", "a", "a">>, <<"b", "b", "b", "b">>>> =>
                  RatEq(ret[1], Zero)

\* Two texts of equal length that differ in one character: one substitution.
C16_Witness ==
    /\ Returned(LevenshteinCall)
    /\ Len(call.args[1]) = 3
    /\ Len(call.args[2]) = 3
    /\ EditDistance(call.args[1], call.args[2]) = 2
    /\ RatEq(ret[1], Rat(4, 6))

-----------------------------------------------------------------------------
(* Properties of scoring and of the hex checks *)

Scored == pc \in {"step3", "step4", "done", "raised"}

\* The text of a student that the scoring compares.
ChosenText(s) ==
    IF use_keil_compilation THEN student_data[s].asm_source ELSE student_data[s].source

\* C17 as claimed: the scores of every scored pair are the values of the
\* metric functions on the chosen texts and on the hex payloads, two empty
\* inputs scoring 1.0, and avg_score is the mean of the two source scores.
C17_ScoresAreMetricValues ==
    Scored =>
        \A k \in 1..Len(all_comparisons) :
            LET comp == all_comparisons[k]
                src1 == ChosenText(comp.student1)
                src2 == ChosenText(comp.student2)
                hex1 == student_data[comp.student1].hex
                hex2 == student_data[comp.student2].hex
            IN  /\ RatEq(comp.source_similarity.token_seq,
                         calculate_token_sequence_similarity(src1, src2))
                /\ RatEq(comp.source_similarity.levenshtein,
                         calculate_levenshtein_similarity(src1, src2))
                /\ RatEq(comp.max_hex_sim, calculate_levenshtein_similarity(hex1, hex2))
                /\ RatEq(comp.avg_score,
                         Mean(comp.source_similarity.token_seq,
                              comp.source_similarity.levenshtein))

\* C17: the two source scores of every scored pair are the values of the
\* metric functions on the chosen texts when both texts are non-empty and 0
\* when one or both are empty; hex_score is the edit-distance similarity of
\* the two payloads when both are non-empty and 0 when one or both are empty;
\* avg_score is the mean of the two source scores.
C17_ScoresWithEmptyAsZero ==
    Scored =>
        \A k \in 1..Len(all_comparisons) :
            LET comp == all_comparisons[k]
                src1 == ChosenText(comp.student1)
                src2 == ChosenText(comp.student2)
                hex1 == student_data[comp.student1].hex
                hex2 == student_data[comp.student2].hex
            IN  /\ IF src1 # <<>> /\ src2 # <<>>
                   THEN /\ RatEq(comp.source_similarity.token_seq,
                                 calculate_token_sequence_similarity(src1, src2))
                        /\ RatEq(comp.source_similarity.levenshtein,
                                 calculate_levenshtein_similarity(src1, src2))
                   ELSE /\ RatEq(comp.source_similarity.token_seq, Zero)
                        /\ RatEq(comp.source_similarity.levenshtein, Zero)
                /\ IF hex1 # <<>> /\ hex2 # <<>>
                   THEN RatEq(comp.max_hex_sim, calculate_levenshtein_similarity(hex1, hex2))
                   ELSE RatEq(comp.max_hex_sim, Zero)
                /\ comp.hex_levenshtein = comp.max_hex_sim
                /\ RatEq(Rat(2 * comp.avg_score[1], comp.avg_score[2]),
                         Rat(comp.source_similarity.token_seq[1]
                                 * comp.source_similarity.levenshtein[2]
                               + comp.source_similarity.levenshtein[1]
                                 * comp.source_similarity.token_seq[2],
                             comp.source_similarity.token_seq[2]
                                 * comp.source_similarity.levenshtein[2]))

\* A batch with a pair of students who both have no text and no payload and
\* a pair of which one student has a text and a payload and the other none.
C17_Witness ==
    /\ Scored
    /\ \E k \in 1..Len(all_comparisons) :
          /\ ChosenText(all_comparisons[k].student1) = <<>>
          /\ ChosenText(all_comparisons[k].student2) = <<>>
          /\ student_data[all_comparisons[k].student1].hex = <<>>
          /\ student_data[all_comparisons[k].student2].hex = <<>>
          /\ RatEq(all_comparisons[k].avg_score, Zero)
    /\ \E k \in 1..Len(all_comparisons) :
          /\ ChosenText(all_comparisons[k].student1) # <<>>
          /\ student_data[all_comparisons[k].student1].hex # <<>>
          /\ ChosenText(all_comparisons[k].student2) = <<>>
          /\ student_data[all_comparisons[k].student2].hex = <<>>

\* The non-zero lengths in ascending order: the arrangement of them that
\* never descends.
AscendingNonZero(lengths) ==
    LET nz == SelectSeq(lengths, LAMBDA l : l > 0)
    IN  CHOOSE srt \in [1..Len(nz) -> SeqRange(nz)] :
            /\ \A i \in 1..(Len(nz) - 1) : srt[i] <= srt[i + 1]
            /\ \A v \in SeqRange(nz) :
                  Cardinality({i \in 1..Len(nz) : srt[i] = v})
                      = Cardinality({i \in 1..Len(nz) : nz[i] = v})

\* C18: the median is that of the lengths above 0: the central value of
\* their ascending order for an odd count, the mean of the two central values
\* for an even count ([10,20,30] gives 20, [10,20] gives 15), 0 for none.
C18_MedianOfNonZeroLengths ==
    Returned("median_hex_length") =>
        LET srt == AscendingNonZero(call.args[1])
            n == Len(srt)
        IN  /\ n = 0 => RatEq(ret[1], Zero)
            /\ (n > 0 /\ n % 2 = 1) => RatEq(ret[1], Rat(srt[(n + 1) \div 2], 1))
            /\ (n > 0 /\ n % 2 = 0) =>
                  RatEq(ret[1], Rat(srt[n \div 2] + srt[n \div 2 + 1], 2))
            /\ call.args[1] = <<10, 20, 30>> => RatEq(ret[1], Rat(20, 1))
            /\ call.args[1] = <<10, 20>> => RatEq(ret[1], Rat(15, 1))

\* Unsorted lengths with a zero among them: the zero is left out and the two
\* others are averaged.
C18_Witness ==
    /\ Returned("median_hex_length")
    /\ call.args[1] = <<30, 0, 20>>
    /\ RatEq(ret[1], Rat(25, 1))

\* C19: after the first step every student, those with hex_length 0
\* included, has the hex anomalies check_hex_integrity returns for its
\* hex_info, its hex_length and the median of the batch.
C19_EveryStudentChecked ==
    Scored =>
        \A st \in 1..Len(student_data) :
            hex_anomalies[st] =
                check_hex_integrity(
                    AllHexInfo(student_files[st].hex_info, student_data[st].hex_length),
                    student_data[st].hex_length, median_hex_length)

HasAnomaly(anomalies, code, severity) ==
    \E i \in 1..Len(anomalies) :
        anomalies[i].code = code /\ anomalies[i].severity = severity

HasCode(anomalies, code) == \E i \in 1..Len(anomalies) : anomalies[i].code = code

-----------------------------------------------------------------------------
(* Properties of validate_source_code *)

SourceCall == "validate_source_code"

\* The lines of a text, by the places of its line boundaries.
BreaksOf(text) == {i \in 1..Len(text) : text[i] = "\n"}
LineCount(text) ==
    Cardinality(BreaksOf(text))
    + (IF text # <<>> /\ text[Len(text)] # "\n" THEN 1 ELSE 0)
LineEnd(text, k) ==
    CHOOSE i \in BreaksOf(text) \cup {Len(text) + 1} :
        Cardinality({j \in BreaksOf(text) : j < i}) = k - 1
LineAt(text, k) ==
    SubSeq(text, IF k = 1 THEN 1 ELSE LineEnd(text, k - 1) + 1, LineEnd(text, k) - 1)

BlankLine(line) == \A i \in 1..Len(line) : IsSpace(line[i])
CommentLine(line) ==
    \E i \in 1..Len(line) : line[i] = ";" /\ \A j \in 1..(i - 1) : IsSpace(line[j])
CodeLine(line) == ~BlankLine(line) /\ ~CommentLine(line)

\* The first word of a code line is word, in any case, with any number of
\* colons after it.
FirstWordIs(line, word) ==
    LET low == str_lower(line)
    IN  /\ CodeLine(line)
        /\ \E i \in 1..Len(low) : \E e \in i..Len(low) :
              /\ \A j \in 1..(i - 1) : IsSpace(low[j])
              /\ e = Len(low) \/ IsSpace(low[e + 1])
              /\ \A j \in i..e : ~IsSpace(low[j])
              /\ e - i + 1 >= Len(word)
              /\ SubSeq(low, i, i + Len(word) - 1) = word
              /\ \A j \in (i + Len(word))..e : low[j] = ":"

LinesWhere(text, P(_)) == {k \in 1..LineCount(text) : P(LineAt(text, k))}

\* The anomaly codes of validate_source_code with their severities.
SourceSeverity ==
    [EMPTY_FILE |-> "error", FEW_INSTRUCTIONS |-> "warning", NO_ORG |-> "warning",
     NO_END |-> "warning", HIGH_COMMENT_RATIO |-> "warning",
     HIGH_BLANK_RATIO |-> "warning", FEW_CODE_LINES |-> "error"]

\* The condition the anomaly stands for.
SourceCondition(text, code) ==
    LET total == LineCount(text)
        blank == Cardinality(LinesWhere(text, BlankLine))
        comment == Cardinality(LinesWhere(text, CommentLine))
        code_count == Cardinality(LinesWhere(text, CodeLine))
    IN  CASE code = "EMPTY_FILE" -> total = 0
          [] code = "FEW_INSTRUCTIONS" -> total > 0 /\ code_count < 10
          [] code = "NO_ORG" ->
                total > 0 /\ ~\E k \in 1..total : FirstWordIs(LineAt(text, k), <<"o", "r", "g">>)
          [] code = "NO_END" ->
                total > 0 /\ ~\E k \in 1..total : FirstWordIs(LineAt(text, k), <<"e", "n", "d">>)
          [] code = "HIGH_COMMENT_RATIO" -> total > 0 /\ 10 * comment > 8 * total
          [] code = "HIGH_BLANK_RATIO" -> total > 0 /\ 2 * blank > total
          [] code = "FEW_CODE_LINES" -> total > 0 /\ code_count < 5

\* C21: for an assembly extension validate_source_code returns exactly the
\* anomalies whose condition holds, each once and with its severity: only
\* EMPTY_FILE for a text of zero lines, otherwise FEW_INSTRUCTIONS iff fewer
\* than 10 instructions, NO_ORG / NO_END iff no line's first word (colons
\* stripped) is org / end, HIGH_COMMENT_RATIO iff more than 0.8 of the lines
\* are comments, HIGH_BLANK_RATIO iff more than 0.5 are blank, FEW_CODE_LINES
\* iff fewer than 5 code lines; for any other extension it returns nothing.
C21_SourceAnomaliesExact ==
    Returned(SourceCall) =>
        LET text == call.args[1]
            out == ret[1]
        IN  IF call.args[2] \in {".a51", ".asm"}
            THEN /\ \A code \in DOMAIN SourceSeverity :
                       HasAnomaly(out, code, SourceSeverity[code])
                           <=> SourceCondition(text, code)
                 /\ \A k \in 1..Len(out) :
                       /\ out[k].code \in DOMAIN SourceSeverity
                       /\ out[k].severity = SourceSeverity[out[k].code]
                       /\ \A m \in 1..Len(out) : out[m].code = out[k].code => m = k
            ELSE out = <<>>

\* An assembly text of at least ten code lines, one of which has org after a
\* label, is reported for the missing org only.
C21_Witness ==
    /\ Returned(SourceCall)
    /\ call.args[2] = ".asm"
    /\ \E k \in 1..LineCount(call.args[1]) :
          LineAt(call.args[1], k) = <<"s", ":", " ", "o", "r", "g">>
    /\ \E k \in 1..LineCount(call.args[1]) :
          LineAt(call.args[1], k) = <<"e", "n", "d", ":">>
    /\ Len(ret[1]) = 1
    /\ ret[1][1].code = "NO_ORG"

\* C29: the instruction count of validate_source_code equals the count of
\* code lines (the counts the FEW_INSTRUCTIONS and FEW_CODE_LINES anomalies
\* carry are both the number of non-blank, non-comment lines), so
\* FEW_CODE_LINES comes with FEW_INSTRUCTIONS; and HIGH_COMMENT_RATIO and
\* HIGH_BLANK_RATIO are never returned together.
C29_InstructionsAreCodeLines ==
    Returned(SourceCall) =>
        LET out == ret[1]
            code_count == Cardinality(LinesWhere(call.args[1], CodeLine))
        IN  /\ \A k \in 1..Len(out) :
                  out[k].code \in {"FEW_INSTRUCTIONS", "FEW_CODE_LINES"}
                      => out[k].details = <<code_count>>
            /\ (call.args[2] \in {".a51", ".asm"} /\ LineCount(call.args[1]) > 0)
                  => (HasCode(out, "FEW_INSTRUCTIONS") <=> code_count < 10)
            /\ HasCode(out, "FEW_CODE_LINES") => HasCode(out, "FEW_INSTRUCTIONS")
            /\ ~(HasCode(out, "HIGH_COMMENT_RATIO") /\ HasCode(out, "HIGH_BLANK_RATIO"))

\* A text with a code line ":" whose instruction is the empty word: too few
\* code lines, too few instructions and too many blank lines.
C29_Witness ==
    /\ Returned(SourceCall)
    /\ \E k \in 1..LineCount(call.args[1]) : LineAt(call.args[1], k) = <<":">>
    /\ HasCode(ret[1], "FEW_CODE_LINES")
    /\ HasCode(ret[1], "FEW_INSTRUCTIONS")
    /\ HasCode(ret[1], "HIGH_BLANK_RATIO")

-----------------------------------------------------------------------------
(* Properties of normalize_hex *)

HexCall == "normalize_hex"

\* str.upper() on ASCII text
str_upper(text) ==
    [i \in 1..Len(text) |->
        IF \E k \in 1..26 : LowerLetters[k] = text[i]
        THEN UpperLetters[CHOOSE k \in 1..26 : LowerLetters[k] = text[i]]
        ELSE text[i]]

\* C24: the payload normalize_hex returns is in upper case: it equals its
\* own upper-casing, also when the data records hold lower-case digits.
C24_PayloadUpperCase ==
    Returned(HexCall) => ret[1][1] = str_upper(ret[1][1])

\* A record line as Intel HEX defines it, read without int(): the two
\* count characters and the two type characters are hexadecimal digits.
FieldValue(line, i) == 16 * HexDigitValue(line[i]) + HexDigitValue(line[i + 1])
HexFields(line) == \A i \in {2, 3, 8, 9} : IsHexDigit(line[i])

\* The stripped, non-blank line is one of the malformed lines of the claim.
Malformed(line) ==
    \/ Head(line) # ":"
    \/ Len(line) < 11
    \/ ~HexFields(line)
    \/ FieldValue(line, 8) = 0 /\ Len(line) < 9 + 2 * FieldValue(line, 2)

AcceptedData(line) == ~Malformed(line) /\ FieldValue(line, 8) = 0
EofRecord(line) == ~Malformed(line) /\ FieldValue(line, 8) = 1

RECURSIVE DataOfAccepted(_, _)
\* The data bytes of the accepted data records from line k on, in order.
DataOfAccepted(text, k) ==
    IF k > LineCount(text) THEN <<>>
    ELSE LET line == Strip(LineAt(text, k))
         IN  (IF line # <<>> /\ AcceptedData(line)
              THEN SubSeq(line, 10, 9 + 2 * FieldValue(line, 2))
              ELSE <<>>)
             \o DataOfAccepted(text, k + 1)

\* The numbers of the malformed lines, ascending.
MalformedLines(text) ==
    SelectSeq([k \in 1..LineCount(text) |-> k],
              LAMBDA k : Strip(LineAt(text, k)) # <<>> /\ Malformed(Strip(LineAt(text, k))))

HexMessagesOf(k) ==
    {"Line " \o ToString(k) \o ": " \o m :
        m \in {"Missing ':' prefix", "Line too short", "Parse error", "Insufficient data"}}

\* C27: normalize_hex returns for every text, and every non-blank line that
\* lacks the ':' prefix, is shorter than 11 characters, has non-hex count or
\* type fields or is a data record shorter than its byte count adds one
\* entry to format_errors and nothing to the payload; the payload is the
\* concatenation of the data of the accepted data records (compared without
\* regard to case) and has_eof tells whether an EOF record was seen.
C27_MalformedLinesRecorded ==
    Returned(HexCall) =>
        LET text == call.args[1]
            payload == ret[1][1]
            hex_info == ret[1][2]
            bad == MalformedLines(text)
        IN  /\ Len(hex_info.format_errors) = Len(bad)
            /\ \A j \in 1..Min(Len(bad), Len(hex_info.format_errors)) :
                  hex_info.format_errors[j] \in HexMessagesOf(bad[j])
            /\ str_lower(payload) = str_lower(DataOfAccepted(text, 1))
            /\ hex_info.has_eof <=>
                  \E k \in 1..LineCount(text) :
                     Strip(LineAt(text, k)) # <<>> /\ EofRecord(Strip(LineAt(text, k)))

-----------------------------------------------------------------------------
(* Properties of the compilation *)

CompileCall == "compile_c_to_asm_keil"

\* part occurs in text
Contains(text, part) ==
    \E i \in 0..(Len(text) - Len(part)) : SubSeq(text, i + 1, i + Len(part)) = part

\* C26: when the compiler is found and exits with a non-zero return code,
\* compile_c_to_asm_keil returns (False, "", error) and error contains what
\* the compiler printed on its standard output, also when its standard error
\* is empty.
C26_FailureReportsStdout ==
    (/\ Returned(CompileCall)
     /\ call.args[1].keil_found
     /\ call.args[1].compiler_exists
     /\ call.args[1].copy_ok
     /\ call.args[1].run = "exit"
     /\ call.args[1].returncode # 0)
        => /\ ~ret[1].raised
           /\ ~ret[1].success
           /\ ret[1].asm_content = <<>>
           /\ Contains(ret[1].error, call.args[1].stdout)

\* The assembly text of the files of a student that compiled, then of the
\* assembly files, as the claim describes it.
RECURSIVE AsmOfCompiled(_)
AsmOfCompiled(files) ==
    IF files = <<>> THEN <<>>
    ELSE (IF Head(files).ext = ".c" /\ Head(files).compiles
          THEN Head(files).asm_code \o <<" ">>
          ELSE <<>>)
         \o AsmOfCompiled(Tail(files))

\* C25: in compile-to-assembly mode a failed compilation of a C file never
\* ends check_plagiarism: once the first step is over every student has its
\* student_data entry, whose asm_source leaves out only the files that did
\* not compile, every pair of students is scored, and a finished run has a
\* result for every selected pair.
C25_CompileFailureNeverAborts ==
    (use_keil_compilation /\ pc # "step1") =>
        /\ Len(student_data) = Len(student_files)
        /\ \A s \in 1..Len(student_data) :
              student_data[s].asm_source =
                  Strip(AsmOfCompiled(student_files[s].source)
                        \o RawAsm(student_files[s].source))
        /\ pc \in {"step3", "step4", "done"} =>
              Len(all_comparisons) = (Len(student_files) * (Len(student_files) - 1)) \div 2
        /\ pc = "done" => Len(results) = Len(filtered_pairs)

-----------------------------------------------------------------------------
(* Properties of the illegal and anomaly flags *)

Preprocessed == pc \notin {"step1", "direct"} /\ Len(student_data) = Len(student_files)

\* The extensions of the source files of student s.
ExtensionsOf(s) ==
    {student_files[s].source[i].ext : i \in 1..Len(student_files[s].source)}

LacksSourceReasons == {"no_valid_source", "no_files"}

CarriesAnomaly(s) ==
    hex_anomalies[s] # <<>> \/ student_data[s].source_anomalies # <<>>

\* The places of student s in a list for the reporter.
PlacesOf(list, s) == {k \in 1..Len(list) : list[k].student = s}

FullAnomalyEntry(entry, s) ==
    /\ entry.hex_anomalies = hex_anomalies[s]
    /\ entry.source_anomalies = student_data[s].source_anomalies

\* C22: the anomaly list handed to the reporter holds every student with at
\* least one source or hex anomaly, with its full anomaly lists, and the
\* illegal list holds every illegal student with its reason.
C22_EveryAnomalyStudentListed ==
    pc = "done" =>
        /\ \A s \in 1..Len(student_data) :
              CarriesAnomaly(s) =>
                 \E k \in PlacesOf(anomaly_students, s) :
                    FullAnomalyEntry(anomaly_students[k], s)
        /\ \A s \in 1..Len(student_data) :
              student_data[s].illegal_submission =>
                 \E k \in PlacesOf(illegal_students, s) :
                    illegal_students[k].reason = student_data[s].illegal_reason

\* C22, amended: the anomaly list holds, once each and with their full
\* anomaly lists, exactly the students that have an anomaly and are not
\* illegal; the illegal list holds, once each and with their reasons,
\* exactly the illegal students.
C22_AnomalyListOfLegalStudents ==
    pc = "done" =>
        /\ \A s \in 1..Len(student_data) :
              /\ Cardinality(PlacesOf(anomaly_students, s)) =
                    (IF CarriesAnomaly(s) /\ ~student_data[s].illegal_submission
                     THEN 1 ELSE 0)
              /\ \A k \in PlacesOf(anomaly_students, s) :
                    FullAnomalyEntry(anomaly_students[k], s)
              /\ Cardinality(PlacesOf(illegal_students, s)) =
                    (IF student_data[s].illegal_submission THEN 1 ELSE 0)
              /\ \A k \in PlacesOf(illegal_students, s) :
                    illegal_students[k].reason = student_data[s].illegal_reason
        /\ \A k \in 1..Len(anomaly_students) :
              anomaly_students[k].student \in 1..Len(student_data)
        /\ \A k \in 1..Len(illegal_students) :
              illegal_students[k].student \in 1..Len(student_data)

\* A finished run with an illegal student that has hex anomalies and is in
\* the illegal list only, and a legal student listed with source and hex
\* anomalies.
C22_Witness ==
    /\ pc = "done"
    /\ \E s \in 1..Len(student_data) :
          /\ student_data[s].illegal_submission
          /\ hex_anomalies[s] # <<>>
          /\ PlacesOf(anomaly_students, s) = {}
          /\ PlacesOf(illegal_students, s) # {}
    /\ \E k \in 1..Len(anomaly_students) :
          /\ anomaly_students[k].hex_anomalies # <<>>
          /\ anomaly_students[k].source_anomalies # <<>>

-----------------------------------------------------------------------------
(* Properties of the oracle calls of one run *)

SamePair(x, y) == x.student1 = y.student1 /\ x.student2 = y.student2

Invoked(r) == \E k \in 1..Len(oracle_calls) : SamePair(oracle_calls[k], r)

-----------------------------------------------------------------------------
(* Properties of the two passes of step 1 *)

\* The median of the hex lengths above 0 of all the students of the batch.
MedianOfBatch ==
    LET srt == AscendingNonZero([s \in 1..Len(student_files) |->
                                    Len(FullHex(student_files[s].hex))])
        n == Len(srt)
    IN  IF n = 0 THEN Zero
        ELSE IF n % 2 = 1 THEN Rat(srt[(n + 1) \div 2], 1)
             ELSE Rat(srt[n \div 2] + srt[n \div 2 + 1], 2)

\* Run loop by loop, step 1 ends in the state that Preprocess gives.
StepOneAgrees ==
    (pc = "step2" /\ integrity_calls = IntegrityCalls(student_data, median_hex_length))
        => /\ student_data = [s \in 1..Len(student_files) |->
                                 PreprocessStudent(student_files[s], use_keil_compilation)]
           /\ median_hex_length = MedianHexLength(HexLengthsOf(student_data))
           /\ hex_anomalies = [s \in 1..Len(student_files) |->
                                  HexAnomaliesOf(student_files[s], student_data[s],
                                                 median_hex_length)]

\* C28: no hex check runs before the hex lengths of all the students are
\* collected and the median is computed from them; every check of the batch
\* is given that median; and from the start of the checks on the median
\* keeps that value.
C28_TwoPassOrder ==
    /\ (integrity_calls # <<>> \/ hex_anomalies # <<>>) =>
          /\ pc \notin {"collect", "step1"}
          /\ Len(student_data) = Len(student_files)
    /\ \A k \in 1..Len(integrity_calls) :
          /\ RatEq(integrity_calls[k].median_length, MedianOfBatch)
          /\ integrity_calls[k].median_length = median_hex_length
    /\ pc \in {"check", "step2"} => RatEq(median_hex_length, MedianOfBatch)

\* A batch of three with different lengths, one of them 0: both students
\* with a payload are checked against the median 6 of 4 and 8, after the
\* student without payload was collected last.
C28_Witness ==
    /\ pc = "step2"
    /\ Len(student_data) = 3
    /\ student_data[3].hex_length = 0
    /\ student_data[1].hex_length # student_data[2].hex_length
    /\ Len(integrity_calls) = 2
    /\ RatEq(median_hex_length, Rat(6, 1))


=============================================================================
